---------------------------- MODULE Spec2Model ----------------------------
(***************************************************************************)
(* Cover-flow wall: the item sequencer, the column packer, the wall        *)
(* builder (CoverFlowRenderer) and the frame-driven scroll engine          *)
(* (AnimationController), modelled from public/js/cover-flow-renderer.js   *)
(* and public/js/animation-controller.js.                                  *)
(*                                                                         *)
(* Pixels are integers; the images used have dimensions whose scaled       *)
(* height is an integer.  The scroll offset is kept in thousandths of a    *)
(* pixel, so that ANIMATION_SPEED * delta / 1000 is exact for timestamps   *)
(* in whole milliseconds.                                                  *)
(***************************************************************************)
EXTENDS Integers, Sequences, FiniteSets, TLC

VARIABLES
  books,              \* bookDataService.getBooks(): the loaded shelf
  images,             \* result of the last preloadImages(books)
  cachedCalculations, \* CoverFlowRenderer.cachedCalculations ("items-" keys)
  items,              \* the item sequence of the last renderWall
  innerWidth,         \* window.innerWidth
  innerHeight,        \* window.innerHeight
  coverFlowChildren,  \* children of the #cover-flow container, left to right
  currentColumns,     \* AnimationController.currentColumns
  coverFlowOffset,    \* AnimationController.coverFlowOffset, in 1/1000 px
  lastTimestamp,      \* AnimationController.lastTimestamp (NullTime = null)
  isRunning,          \* AnimationController.isRunning
  animationFrameId,   \* AnimationController.animationFrameId (NullId = null)
  rafQueue,           \* the host's pending requestAnimationFrame callbacks
  now,                \* the host clock, in ms
  placed,             \* history: item indices placed since the last renderWall
  lastCall,           \* history: the last operation that ran
  wall,               \* the result record of the last renderWall
  packed,             \* the result of the last single-column packing
  loader,             \* one preloadImages call: its closure and its promise
  exchange,           \* one request to the RSS proxy and its response
  tick,               \* one animateCoverFlow callback, statement by statement
  renderer,           \* the renderer's imageCache and elementPool
  service,            \* the BookDataService and its fetchBookData call
  app                 \* the BookCoverFlowApp: its resize timer and buildWall

vars == <<books, images, cachedCalculations, items, innerWidth, innerHeight,
          coverFlowChildren, currentColumns, coverFlowOffset, lastTimestamp,
          isRunning, animationFrameId, rafQueue, now, placed, lastCall, wall,
          packed, loader, exchange, tick, renderer, service, app>>

\* The variables of the collaborators modelled on their own
others == <<loader, exchange, tick, renderer, service, app>>

---------------------------------------------------------------------------
(* CONFIG, public/js/config.js *)
COLUMN_WIDTH == 200
MAX_IMAGE_HEIGHT == 320
YEAR_TAG_HEIGHT == 60
YEAR_TAG_MARGIN == 20
ANIMATION_SPEED == 30
MAX_REPEATS == 10

(* JavaScript values that have no integer counterpart *)
NullYear == -1      \* extractYearFromBook's null
NullTime == -1      \* lastTimestamp = null
NullId == -1        \* animationFrameId = null
NaN == -2           \* initialNextItemIdx % 0

Null == [present |-> FALSE, naturalWidth |-> 0, naturalHeight |-> 0]

Image(w, h) == [present |-> TRUE, naturalWidth |-> w, naturalHeight |-> h]

ReadAt(text, year) == [text |-> text, year |-> year]
NoReadAt == ReadAt("", NullYear)              \* read_at missing or empty
BadReadAt == ReadAt("not a date", NullYear)   \* new Date(read_at) is invalid

Book(readAt, img) == [read_at |-> readAt, image |-> img]

Min(a, b) == IF a <= b THEN a ELSE b

---------------------------------------------------------------------------
(* Item sequencer *)

\* `x && ...` on a year: null and 0 are both falsy
TruthyYear(y) == y # NullYear /\ y # 0

extractYearFromBook(book) ==
  IF book.read_at.text = "" THEN NullYear
  ELSE IF book.read_at.text = "not a date" THEN NullYear
  ELSE book.read_at.year

YearDivider(year) == [type |-> "year-divider", year |-> year]
BookItem(book, img, idx) ==
  [type |-> "book", book |-> book, image |-> img, index |-> idx]

\* The body of the for loop for one idx (0-based): the pair <<items, lastYear>>
\* after it.
\* Variant: the divider is emitted before the absent image is skipped
sequencerStepSkipAfterDivider(bs, imgs, idx, its, lastYear) ==
  LET book == bs[idx + 1]
      img == imgs[idx + 1]
      currentYear == extractYearFromBook(book)
      divide == TruthyYear(currentYear) /\ currentYear # lastYear
      withDivider == IF divide THEN Append(its, YearDivider(currentYear)) ELSE its
      year == IF divide THEN currentYear ELSE lastYear
  IN IF ~img.present THEN <<withDivider, year>>
     ELSE <<Append(withDivider, BookItem(book, img, idx)), year>>

\* Variant: a divider for every change of year, null included
sequencerStepNoNullCheck(bs, imgs, idx, its, lastYear) ==
  LET book == bs[idx + 1]
      img == imgs[idx + 1]
      currentYear == extractYearFromBook(book)
      divide == currentYear # lastYear
      withDivider == IF divide THEN Append(its, YearDivider(currentYear)) ELSE its
      year == IF divide THEN currentYear ELSE lastYear
  IN IF ~img.present THEN <<its, lastYear>>
     ELSE <<Append(withDivider, BookItem(book, img, idx)), year>>

\* Variant: lastYear follows every included book, null years included
sequencerStepResetOnNull(bs, imgs, idx, its, lastYear) ==
  LET book == bs[idx + 1]
      img == imgs[idx + 1]
      currentYear == extractYearFromBook(book)
      divide == TruthyYear(currentYear) /\ currentYear # lastYear
      withDivider == IF divide THEN Append(its, YearDivider(currentYear)) ELSE its
  IN IF ~img.present THEN <<its, lastYear>>
     ELSE <<Append(withDivider, BookItem(book, img, idx)), currentYear>>

\* The loop body as written
sequencerStep(bs, imgs, idx, its, lastYear) ==
  LET book == bs[idx + 1]
      img == imgs[idx + 1]
      currentYear == extractYearFromBook(book)
      divide == TruthyYear(currentYear) /\ currentYear # lastYear
      withDivider == IF divide THEN Append(its, YearDivider(currentYear)) ELSE its
      year == IF divide THEN currentYear ELSE lastYear
  IN IF ~img.present THEN <<its, lastYear>>
     ELSE <<Append(withDivider, BookItem(book, img, idx)), year>>

RECURSIVE sequencerLoop(_, _, _, _, _)
sequencerLoop(bs, imgs, idx, its, lastYear) ==
  IF idx >= Len(bs) THEN its
  ELSE LET after == sequencerStep(bs, imgs, idx, its, lastYear)
       IN sequencerLoop(bs, imgs, idx + 1, after[1], after[2])

\* The sequence as computed on a cache miss
buildItems(bs, imgs) == sequencerLoop(bs, imgs, 0, <<>>, NullYear)

itemsCacheKey(bs, imgs) == <<"items", Len(bs), Len(imgs)>>

cacheHas(cache, key) == \E e \in cache : e.key = key
cacheGet(cache, key) == (CHOOSE e \in cache : e.key = key).value
cacheSet(cache, key, value) ==
  {e \in cache : e.key # key} \cup {[key |-> key, value |-> value]}

\* <<items returned, cachedCalculations afterwards>>
createBookItemsWithYearDividers(cache, bs, imgs) ==
  LET cacheKey == itemsCacheKey(bs, imgs)
  IN IF cacheHas(cache, cacheKey) THEN <<cacheGet(cache, cacheKey), cache>>
     ELSE LET its == buildItems(bs, imgs)
          IN <<its, cacheSet(cache, cacheKey, its)>>

\* cleanup(): the memo map is emptied only once it holds more than
\* CACHE_LIMIT entries
CACHE_LIMIT == 1000

\* Variant: the map is emptied once it holds CACHE_LIMIT entries
cleanupAtLimit(cache) == IF Cardinality(cache) >= CACHE_LIMIT THEN {} ELSE cache

cleanup(cache) == IF Cardinality(cache) > CACHE_LIMIT THEN {} ELSE cache

\* The rest of cleanup(): imageCache and the three element pools
IMAGE_CACHE_LIMIT == 500
COLUMN_POOL_LIMIT == 50
IMAGE_POOL_LIMIT == 100
YEAR_TAG_POOL_LIMIT == 20

\* The renderer's imageCache and elementPool as the constructor leaves them
NewRenderer ==
  [imageCache |-> {},
   elementPool |-> [columns |-> <<>>, images |-> <<>>, yearTags |-> <<>>]]

\* array.slice(begin, end), 0 <= begin
slice(array, begin, end) ==
  SubSeq(array, begin + 1, IF end < Len(array) THEN end ELSE Len(array))

cleanupRenderer(r) ==
  [imageCache |-> IF Cardinality(r.imageCache) > IMAGE_CACHE_LIMIT
                    THEN {} ELSE r.imageCache,
   elementPool |->
     [columns |-> slice(r.elementPool.columns, 0, COLUMN_POOL_LIMIT),
      images |-> slice(r.elementPool.images, 0, IMAGE_POOL_LIMIT),
      yearTags |-> slice(r.elementPool.yearTags, 0, YEAR_TAG_POOL_LIMIT)]]

---------------------------------------------------------------------------
(* Column packing: CoverFlowRenderer (initial wall) *)

\* A column: div is the sequence of (0-based) item indices whose nodes were
\* appended to the column's element, height the accumulated pixel height.
Column(div, height) == [div |-> div, height |-> height]

\* naturalHeight * (COLUMN_WIDTH / naturalWidth), clamped; exact for the
\* image sizes used here (naturalWidth divides naturalHeight * COLUMN_WIDTH)
\* Variant: no clamp to MAX_IMAGE_HEIGHT
calculateScaledHeightUnclamped(image) ==
  (image.naturalHeight * COLUMN_WIDTH) \div image.naturalWidth

calculateScaledHeight(image) ==
  Min((image.naturalHeight * COLUMN_WIDTH) \div image.naturalWidth,
      MAX_IMAGE_HEIGHT)

yearTagHeight == YEAR_TAG_HEIGHT + YEAR_TAG_MARGIN

\* addItemToColumn: i is the index of item in the item sequence
addItemToColumn(column, item, i) ==
  IF item.type = "year-divider"
    THEN Column(Append(column.div, i), column.height + yearTagHeight)
  ELSE IF item.type = "book"
    THEN Column(Append(column.div, i),
                column.height + calculateScaledHeight(item.image))
  ELSE column

createColumns(numCols) == [c \in 1..numCols |-> Column(<<>>, 0)]

\* while (colIdx < columns.length && columns[colIdx].height >= height) colIdx++
RECURSIVE skipFullColumns(_, _, _)
skipFullColumns(columns, colIdx, height) ==
  IF colIdx < Len(columns) /\ columns[colIdx + 1].height >= height
    THEN skipFullColumns(columns, colIdx + 1, height)
    ELSE colIdx

\* The for loop of fillColumns from index i
RECURSIVE fillColumnsFor(_, _, _, _, _, _)
fillColumnsFor(columns, its, height, i, colIdx, nextItemIdx) ==
  IF i >= Len(its)
    THEN [columns |-> columns, colIdx |-> colIdx, filled |-> FALSE,
          nextItemIdx |-> nextItemIdx]
  ELSE LET cur == skipFullColumns(columns, colIdx, height)
       IN IF cur >= Len(columns)
            THEN [columns |-> columns, colIdx |-> cur, filled |-> TRUE,
                  nextItemIdx |-> i]
            ELSE fillColumnsFor(
                   [columns EXCEPT ![cur + 1] =
                      addItemToColumn(columns[cur + 1], its[i + 1], i)],
                   its, height, i + 1, cur, nextItemIdx)

\* The while loop of fillColumns
RECURSIVE fillColumnsWhile(_, _, _, _, _, _)
fillColumnsWhile(columns, its, height, colIdx, repeats, nextItemIdx) ==
  IF repeats < MAX_REPEATS
    THEN LET pass == fillColumnsFor(columns, its, height, nextItemIdx,
                                    colIdx, nextItemIdx)
         IN IF pass.filled
              THEN [columns |-> pass.columns, nextItemIdx |-> pass.nextItemIdx,
                    repeats |-> repeats, filled |-> TRUE]
              ELSE fillColumnsWhile(pass.columns, its, height, 0,
                                    repeats + 1, 0)
    ELSE [columns |-> columns, nextItemIdx |-> nextItemIdx,
          repeats |-> repeats, filled |-> FALSE]

fillColumns(columns, its, height) ==
  fillColumnsWhile(columns, its, height, 0, 0, 0)

\* Math.ceil(width / COLUMN_WIDTH), width >= 0
numColsFor(width) == (width + COLUMN_WIDTH - 1) \div COLUMN_WIDTH

\* renderWall: <<the returned record, cachedCalculations afterwards>>
renderWall(cache, bs, imgs, width, height) ==
  LET numCols == numColsFor(width)
      made == createBookItemsWithYearDividers(cache, bs, imgs)
      fill == fillColumns(createColumns(numCols), made[1], height)
  IN <<[columns |-> fill.columns, items |-> made[1],
        nextItemIdx |-> fill.nextItemIdx, colWidth |-> COLUMN_WIDTH],
       made[2]>>

---------------------------------------------------------------------------
(* Column packing: AnimationController (one synthesized column) *)

\* i % items.length
modLength(i, len) == IF len = 0 \/ i = NaN THEN NaN ELSE i % len

\* The for loop of addColumnToRight from index i
RECURSIVE addColumnFor(_, _, _, _)
addColumnFor(its, height, i, col) ==
  IF i = NaN \/ i >= Len(its)
    THEN [col |-> col, i |-> i, filled |-> FALSE]
  ELSE LET item == its[i + 1]
           grown == IF item.type = "year-divider"
                      THEN Column(Append(col.div, i), col.height + yearTagHeight)
                    ELSE IF item.type = "book"
                      THEN Column(Append(col.div, i),
                                  col.height + calculateScaledHeight(item.image))
                    ELSE col
       IN IF grown.height >= height
            THEN [col |-> grown, i |-> i + 1, filled |-> TRUE]
            ELSE addColumnFor(its, height, i + 1, grown)

\* The while loop of addColumnToRight
\* Variant: repeats <= MAX_REPEATS
RECURSIVE addColumnWhileOneMore(_, _, _, _, _)
addColumnWhileOneMore(its, height, i, col, repeats) ==
  IF repeats <= MAX_REPEATS
    THEN LET pass == addColumnFor(its, height, i, col)
         IN IF pass.filled
              THEN [col |-> pass.col, i |-> pass.i, repeats |-> repeats,
                    filled |-> TRUE]
              ELSE addColumnWhileOneMore(its, height, 0, pass.col, repeats + 1)
    ELSE [col |-> col, i |-> i, repeats |-> repeats, filled |-> FALSE]

RECURSIVE addColumnWhile(_, _, _, _, _)
addColumnWhile(its, height, i, col, repeats) ==
  IF repeats < MAX_REPEATS
    THEN LET pass == addColumnFor(its, height, i, col)
         IN IF pass.filled
              THEN [col |-> pass.col, i |-> pass.i, repeats |-> repeats,
                    filled |-> TRUE]
              ELSE addColumnWhile(its, height, 0, pass.col, repeats + 1)
    ELSE [col |-> col, i |-> i, repeats |-> repeats, filled |-> FALSE]

\* addColumnToRight: the packed column, the returned cursor (next), and the
\* loop's final repeats and filled
\* Variant: the cursor returned is the index of the last entry placed
addColumnToRightNoAdvance(its, height, nextItemIdx) ==
  LET done == addColumnWhile(its, height, nextItemIdx, Column(<<>>, 0), 0)
  IN [col |-> done.col,
      next |-> modLength(IF done.filled THEN done.i - 1 ELSE done.i, Len(its)),
      repeats |-> done.repeats, filled |-> done.filled]

addColumnToRight(its, height, nextItemIdx) ==
  LET done == addColumnWhile(its, height, nextItemIdx, Column(<<>>, 0), 0)
  IN [col |-> done.col, next |-> modLength(done.i, Len(its)),
      repeats |-> done.repeats, filled |-> done.filled]

---------------------------------------------------------------------------
(* Column packing: the optimized AnimationController *)

\* precacheItemDimensions: cachedDimensions after start() cleared it
precacheItemDimensions(its) ==
  {[key |-> <<"book", k - 1>>, value |-> calculateScaledHeight(its[k].image)] :
      k \in {j \in 1..Len(its) : its[j].type = "book" /\ its[j].image.present}}
  \cup
  {[key |-> <<"year", its[k].year>>, value |-> yearTagHeight] :
      k \in {j \in 1..Len(its) : its[j].type = "year-divider"}}

\* cachedDimensions.get(key) || fallback
cachedOr(cache, key, fallback) ==
  IF cacheHas(cache, key) /\ cacheGet(cache, key) # 0
    THEN cacheGet(cache, key)
    ELSE fallback

RECURSIVE addColumnOptimizedFor(_, _, _, _, _)
addColumnOptimizedFor(cache, its, height, i, col) ==
  IF i = NaN \/ i >= Len(its)
    THEN [col |-> col, i |-> i, filled |-> FALSE]
  ELSE LET item == its[i + 1]
           grown == IF item.type = "year-divider"
                      THEN Column(Append(col.div, i),
                                  col.height + cachedOr(cache, <<"year", item.year>>,
                                                        yearTagHeight))
                    ELSE IF item.type = "book"
                      THEN Column(Append(col.div, i),
                                  col.height + cachedOr(cache, <<"book", i>>,
                                      calculateScaledHeight(item.image)))
                    ELSE col
       IN IF grown.height >= height
            THEN [col |-> grown, i |-> i + 1, filled |-> TRUE]
            ELSE addColumnOptimizedFor(cache, its, height, i + 1, grown)

RECURSIVE addColumnOptimizedWhile(_, _, _, _, _, _)
addColumnOptimizedWhile(cache, its, height, i, col, repeats) ==
  IF repeats < MAX_REPEATS
    THEN LET pass == addColumnOptimizedFor(cache, its, height, i, col)
         IN IF pass.filled
              THEN [col |-> pass.col, i |-> pass.i, repeats |-> repeats,
                    filled |-> TRUE]
              ELSE addColumnOptimizedWhile(cache, its, height, 0, pass.col,
                                           repeats + 1)
    ELSE [col |-> col, i |-> i, repeats |-> repeats, filled |-> FALSE]

addColumnToRightOptimized(cache, its, height, nextItemIdx) ==
  LET done == addColumnOptimizedWhile(cache, its, height, nextItemIdx,
                                      Column(<<>>, 0), 0)
  IN [col |-> done.col, next |-> modLength(done.i, Len(its)),
      repeats |-> done.repeats, filled |-> done.filled]

---------------------------------------------------------------------------
(* Scroll engine: AnimationController *)

\* A pending requestAnimationFrame callback: its handle, and the variables
\* the animateCoverFlow closure captured from the start() call that made it
Frame(id, its, height, nextItemIdx) ==
  [id |-> id, items |-> its, height |-> height, nextItemIdx |-> nextItemIdx]

\* requestAnimationFrame's return value.  Handles are opaque: the host never
\* hands out the handle of a request that is still pending.
requestId(queue) ==
  CHOOSE n \in 0..Cardinality(queue) :
    /\ \A f \in queue : f.id # n
    /\ \A m \in 0..(n - 1) : \E f \in queue : f.id = m

\* The offset, viewport and wall widths in 1/1000 px
Milli(px) == px * 1000

\* stop(): the fields it leaves, and the host's queue after cancelAnimationFrame
\* Variant: no cancelAnimationFrame
stopNoCancel(frameId, queue) ==
  [animationFrameId |-> NullId, rafQueue |-> queue, isRunning |-> FALSE]

stop(frameId, queue) ==
  [animationFrameId |-> NullId,
   rafQueue |-> IF frameId # NullId THEN {f \in queue : f.id # frameId} ELSE queue,
   isRunning |-> FALSE]

\* start(columns, colWidth, height, items, initialNextItemIdx)
\* Variant: no leading this.stop()
startNoStop(frameId, queue, columns, height, its, initialNextItemIdx) ==
  LET id == requestId(queue)
  IN [coverFlowOffset |-> 0,
      lastTimestamp |-> NullTime,
      currentColumns |-> columns,
      isRunning |-> TRUE,
      animationFrameId |-> id,
      rafQueue |-> queue \cup
        {Frame(id, its, height, modLength(initialNextItemIdx, Len(its)))}]

\* Variant: lastTimestamp survives start()
startKeepTimestamp(frameId, queue, columns, height, its, initialNextItemIdx) ==
  LET stopped == stop(frameId, queue)
      id == requestId(stopped.rafQueue)
  IN [coverFlowOffset |-> 0,
      lastTimestamp |-> lastTimestamp,
      currentColumns |-> columns,
      isRunning |-> TRUE,
      animationFrameId |-> id,
      rafQueue |-> stopped.rafQueue \cup
        {Frame(id, its, height, modLength(initialNextItemIdx, Len(its)))}]

start(frameId, queue, columns, height, its, initialNextItemIdx) ==
  LET stopped == stop(frameId, queue)
      id == requestId(stopped.rafQueue)
  IN [coverFlowOffset |-> 0,
      lastTimestamp |-> NullTime,
      currentColumns |-> columns,
      isRunning |-> TRUE,
      animationFrameId |-> id,
      rafQueue |-> stopped.rafQueue \cup
        {Frame(id, its, height, modLength(initialNextItemIdx, Len(its)))}]

\* Variant: the last column is not counted
getWallWidthOneShort(columns, colWidth) ==
  (IF Len(columns) > 0 THEN Len(columns) - 1 ELSE 0) * colWidth

\* Variant: one column too many is counted
getWallWidthOneMore(columns, colWidth) == (Len(columns) + 1) * colWidth

getWallWidth(columns, colWidth) == Len(columns) * colWidth

\* Variant: the offset is not compensated when a column is removed
removeColumnFromLeftNoCompensation(columns, children, offset, colWidth) ==
  IF Len(columns) > 0 /\ offset + Milli(colWidth) <= 0
    THEN [currentColumns |-> Tail(columns),
          coverFlowChildren |-> IF Len(children) > 0 THEN Tail(children)
                                ELSE children,
          coverFlowOffset |-> offset]
    ELSE [currentColumns |-> columns, coverFlowChildren |-> children,
          coverFlowOffset |-> offset]

\* removeColumnFromLeft(colWidth): the column list, the container's children
\* and the offset (1/1000 px) after it
removeColumnFromLeft(columns, children, offset, colWidth) ==
  IF Len(columns) = 0
    THEN [currentColumns |-> columns, coverFlowChildren |-> children,
          coverFlowOffset |-> offset]
  ELSE IF offset + Milli(colWidth) <= 0
    THEN [currentColumns |-> Tail(columns),
          coverFlowChildren |-> IF Len(children) > 0 THEN Tail(children)
                                ELSE children,
          coverFlowOffset |-> offset + Milli(colWidth)]
  ELSE [currentColumns |-> columns, coverFlowChildren |-> children,
        coverFlowOffset |-> offset]

\* `!this.lastTimestamp`: null and 0 are both falsy
FalsyTime(t) == t = NullTime \/ t = 0

\* The body of animateCoverFlow(timestamp) past the isRunning check, run by
\* the closure of frame f: every field it writes, the column it synthesized
\* (synthesized is <<>> when none was) and the closure's cursor afterwards
animateCoverFlow(f, timestamp, columns, children, offset, last, viewportWidth) ==
  LET colWidth == COLUMN_WIDTH
      base == IF FalsyTime(last) THEN timestamp ELSE last
      delta == timestamp - base
      moved == offset - ANIMATION_SPEED * delta
      wallWidth == getWallWidth(columns, colWidth)
      add == Milli(wallWidth) + moved < Milli(viewportWidth + colWidth)
      made == addColumnToRight(f.items, f.height, f.nextItemIdx)
      withNew == IF add THEN Append(columns, made.col) ELSE columns
      childrenWithNew == IF add THEN Append(children, made.col) ELSE children
      removed == removeColumnFromLeft(withNew, childrenWithNew, moved, colWidth)
  IN [lastTimestamp |-> timestamp,
      currentColumns |-> removed.currentColumns,
      coverFlowChildren |-> removed.coverFlowChildren,
      coverFlowOffset |-> removed.coverFlowOffset,
      synthesized |-> IF add THEN <<made.col.div>> ELSE <<>>,
      nextItemIdx |-> IF add THEN made.next ELSE f.nextItemIdx]

---------------------------------------------------------------------------
(* Inputs *)

MaxSeqBooks == 5        \* longest shelf given to the sequencer alone
MaxLayoutBooks == 3     \* longest shelf given to the wall builder and packer
MaxBooks == 2           \* longest shelf of the running animation

TallImage == Image(200, 400)    \* scales to 400, clamped to 320
ShortImage == Image(400, 20)    \* scales to 10

DateIn(year) == ReadAt("date", year)

ShelvesOf(kinds, maxLen) ==
  UNION {[1..n -> kinds] : n \in 0..maxLen}

\* preloadImages: slot i is book i's image when loaded[i], null otherwise
Preloaded(bs, loaded) ==
  [i \in 1..Len(bs) |-> IF loaded[i] THEN bs[i].image ELSE Null]

AllLoaded(bs) == [i \in 1..Len(bs) |-> TRUE]
NoneLoaded(bs) == [i \in 1..Len(bs) |-> FALSE]

NoWall == [columns |-> <<>>, items |-> <<>>, nextItemIdx |-> 0,
           colWidth |-> COLUMN_WIDTH]

NoPack == [cursor |-> 0,
           basic |-> [col |-> Column(<<>>, 0), next |-> 0, repeats |-> 0,
                      filled |-> FALSE],
           optimized |-> [col |-> Column(<<>>, 0), next |-> 0, repeats |-> 0,
                          filled |-> FALSE]]

NoLoad == [phase |-> "idle"]
NoExchange == [phase |-> "idle"]
NoTick == [pc |-> "idle"]

\* this.bookData = null
NullData == [null |-> TRUE, items |-> <<>>, total |-> 0, title |-> ""]

\* The BookDataService as its constructor leaves it; pc is where its
\* fetchBookData call waits ("idle": no call in progress)
NewService ==
  [pc |-> "idle", bookData |-> NullData, books |-> <<>>, registered |-> FALSE,
   outcome |-> "none", page |-> 0, hasMore |-> FALSE, allItems |-> <<>>,
   totalBooks |-> 0, channelTitle |-> "", events |-> <<>>, requests |-> <<>>,
   answers |-> <<>>, error |-> "none", before |-> [bookData |-> NullData, books |-> <<>>]]

\* The app as its constructor leaves it: no resize timer is pending and no
\* buildWall is under way. timers holds the deadlines of the pending
\* timers, timeout the one the debounced function remembers
NewApp ==
  [phase |-> "created", timeout |-> NullTime, timers |-> {}, building |-> 0,
   lastResize |-> NullTime, burst |-> 0, runs |-> 0, lastFrame |-> NullTime,
   owed |-> FALSE, ignored |-> FALSE, fresh |-> FALSE, rebuilt |-> FALSE,
   width |-> 0]

\* The renderer and the controller as their constructors leave them
ComponentsConstructed ==
  /\ cachedCalculations = {}
  /\ items = <<>>
  /\ coverFlowChildren = <<>>
  /\ currentColumns = <<>>
  /\ coverFlowOffset = 0
  /\ lastTimestamp = NullTime
  /\ isRunning = FALSE
  /\ animationFrameId = NullId
  /\ rafQueue = {}
  /\ placed = <<>>
  /\ lastCall = "init"
  /\ wall = NoWall
  /\ packed = NoPack
  /\ renderer = NewRenderer
  /\ service = NewService
  /\ app = NewApp

\* What the specifications of the wall start from, the shelf and the
\* viewport aside
Constructed ==
  /\ ComponentsConstructed
  /\ loader = NoLoad
  /\ exchange = NoExchange
  /\ tick = NoTick

\* The wall's variables, and their values where no shelf is on screen
core == <<books, images, cachedCalculations, items, innerWidth, innerHeight,
          coverFlowChildren, currentColumns, coverFlowOffset, lastTimestamp,
          isRunning, animationFrameId, rafQueue, now, placed, lastCall, wall,
          packed>>

NoShelf ==
  /\ books = <<>>
  /\ images = <<>>
  /\ innerWidth = 0
  /\ innerHeight = 0
  /\ now = 0
  /\ ComponentsConstructed

---------------------------------------------------------------------------
(* The sequencer alone: one call on a freshly constructed renderer *)

SeqBooks == {Book(r, TallImage) :
               r \in {NoReadAt, BadReadAt, DateIn(2021), DateIn(2022)}}

SeqInit ==
  /\ books \in ShelvesOf(SeqBooks, MaxSeqBooks)
  /\ images \in {Preloaded(books, l) : l \in [1..Len(books) -> BOOLEAN]}
  /\ innerWidth = 0
  /\ innerHeight = 0
  /\ now = 0
  /\ Constructed

Sequence ==
  /\ lastCall = "init"
  /\ LET made == createBookItemsWithYearDividers(cachedCalculations, books, images)
     IN /\ items' = made[1]
        /\ cachedCalculations' = made[2]
  /\ lastCall' = "sequence"
  /\ UNCHANGED <<books, images, innerWidth, innerHeight, coverFlowChildren,
                 currentColumns, coverFlowOffset, lastTimestamp, isRunning,
                 animationFrameId, rafQueue, now, placed, wall, packed, others>>

SeqNext == Sequence

SeqSpec == SeqInit /\ [][SeqNext]_vars

---------------------------------------------------------------------------
(* Properties of the sequencer *)

YearsOf(bs) == [i \in 1..Len(bs) |-> extractYearFromBook(bs[i])]

AllPresent(imgs) == \A i \in 1..Len(imgs) : imgs[i].present

Dividers(its) == {k \in 1..Len(its) : its[k].type = "year-divider"}

\* The (0-based) book positions whose item directly follows a year divider
DividedBooks(its) ==
  {its[k].index : k \in {j \in 2..Len(its) :
                           its[j].type = "book" /\ its[j - 1].type = "year-divider"}}

\* The years of the dividers, in order
DividerYears(its) ==
  LET RECURSIVE Walk(_)
      Walk(k) == IF k > Len(its) THEN <<>>
                 ELSE IF its[k].type = "year-divider"
                        THEN <<its[k].year>> \o Walk(k + 1)
                        ELSE Walk(k + 1)
  IN Walk(1)

\* The (0-based) book positions of the book items, in order
BookIndices(its) ==
  LET RECURSIVE Walk(_)
      Walk(k) == IF k > Len(its) THEN <<>>
                 ELSE IF its[k].type = "book"
                        THEN <<its[k].index>> \o Walk(k + 1)
                        ELSE Walk(k + 1)
  IN Walk(1)

\* The positions (0-based) with a present asset, ascending
PresentPositions(imgs) ==
  LET RECURSIVE Walk(_)
      Walk(i) == IF i > Len(imgs) THEN <<>>
                 ELSE IF imgs[i].present THEN <<i - 1>> \o Walk(i + 1)
                 ELSE Walk(i + 1)
  IN Walk(1)

Sequenced == lastCall = "sequence"

C4Shelf ==
  /\ Sequenced
  /\ YearsOf(books) = <<2021, 2021, 2022, NullYear, 2022>>
  /\ AllPresent(images)

\* C4 as stated: for read-years [2021, 2021, 2022, null, 2022], all assets
\* present, dividers stand exactly before the books at index 0, 2 and 4
\* (three dividers).
C4_AsStated ==
  C4Shelf => /\ DividedBooks(items) = {0, 2, 4}
             /\ Cardinality(Dividers(items)) = 3

\* C4 amended: for read-years [2021, 2021, 2022, null, 2022], all assets
\* present, dividers stand exactly before the books at index 0 (2021) and
\* index 2 (2022): two dividers, none before index 4, since the null-year
\* book leaves the tracked year at 2022.
C4_TwoDividers ==
  C4Shelf => /\ DividedBooks(items) = {0, 2}
             /\ DividerYears(items) = <<2021, 2022>>
             /\ BookIndices(items) = <<0, 1, 2, 3, 4>>

C4_Witness == C4Shelf /\ Len(items) = 7

\* The year of the nearest earlier position that has a present asset and a
\* truthy year; NullYear when there is none
TrackedYearBefore(bs, imgs, i) ==
  LET earlier == {j \in 1..(i - 1) :
                    imgs[j].present /\ TruthyYear(extractYearFromBook(bs[j]))}
  IN IF earlier = {} THEN NullYear
     ELSE extractYearFromBook(bs[CHOOSE j \in earlier : \A m \in earlier : m <= j])

DividerDue(bs, imgs, i) ==
  /\ TruthyYear(extractYearFromBook(bs[i]))
  /\ extractYearFromBook(bs[i]) # TrackedYearBefore(bs, imgs, i)

\* C5: a divider for year Y stands directly before a book iff the book's year
\* Y is non-null and differs from the year of the most recently emitted
\* divider (none at the start); a null-year book emits no divider, is still
\* included, and leaves the tracked year unchanged; every divider is directly
\* followed by the book it announces.
C5_NullYearTransparent ==
  Sequenced =>
    /\ \A k \in 1..Len(items) :
         items[k].type = "book" =>
           LET i == items[k].index + 1
               divided == k > 1 /\ items[k - 1].type = "year-divider"
           IN /\ divided <=> DividerDue(books, images, i)
              /\ divided => items[k - 1].year = extractYearFromBook(books[i])
              /\ items[k].book = books[i]
    /\ \A k \in Dividers(items) : k < Len(items) /\ items[k + 1].type = "book"
    /\ BookIndices(items) = PresentPositions(images)

C5_Witness ==
  /\ Sequenced
  /\ YearsOf(books) = <<2021, NullYear, 2021>>
  /\ AllPresent(images)
  /\ DividerYears(items) = <<2021>>
  /\ BookIndices(items) = <<0, 1, 2>>

\* s without its i-th element (1-based)
Without(s, i) == [k \in 1..(Len(s) - 1) |-> IF k < i THEN s[k] ELSE s[k + 1]]

\* The items with the book positions above i (1-based) moved down by one
Renumbered(its, i) ==
  [k \in 1..Len(its) |->
     IF its[k].type = "book" /\ its[k].index > i - 1
       THEN [its[k] EXCEPT !.index = @ - 1]
       ELSE its[k]]

\* C6: a position whose asset is absent contributes no book item, and the
\* sequence is the one obtained from the shelf with that position deleted
\* (so it causes no divider and does not touch the tracked year); the
\* positions with a present asset appear exactly once each, in input order.
C6_AbsentExcluded ==
  Sequenced =>
    /\ \A i \in 1..Len(books) :
         ~images[i].present =>
           /\ \A k \in 1..Len(items) :
                items[k].type = "book" => items[k].index # i - 1
           /\ Renumbered(items, i) =
                sequencerLoop(Without(books, i), Without(images, i), 0, <<>>, NullYear)
    /\ BookIndices(items) = PresentPositions(images)

C6_Witness ==
  /\ Sequenced
  /\ YearsOf(books) = <<2021, 2022, 2021>>
  /\ PresentPositions(images) = <<0, 2>>
  /\ DividerYears(items) = <<2021>>
  /\ BookIndices(items) = <<0, 2>>

---------------------------------------------------------------------------
(* The wall builder and the packer alone: renderWall on a freshly          *)
(* constructed renderer, then one column packed from any start cursor      *)

LayoutBooks == {Book(r, img) : r \in {NoReadAt, DateIn(2020), DateIn(2021)},
                               img \in {TallImage, ShortImage}}

\* Five covers that scale to 320 px, read in 2020, 2020, 2021, 2021, 2021
FiveBookShelf ==
  <<Book(DateIn(2020), TallImage), Book(DateIn(2020), TallImage),
    Book(DateIn(2021), TallImage), Book(DateIn(2021), TallImage),
    Book(DateIn(2021), TallImage)>>

LayoutWidths == {0, 300, 600}
LayoutHeights == {0, 300, 900}

LayoutInit ==
  /\ books \in ShelvesOf(LayoutBooks, MaxLayoutBooks) \cup {FiveBookShelf}
  /\ images \in {Preloaded(books, AllLoaded(books)),
                 Preloaded(books, NoneLoaded(books))}
  /\ innerWidth \in LayoutWidths
  /\ innerHeight \in LayoutHeights
  /\ now = 0
  /\ Constructed

\* The cursors start() can hand to the packer: initialNextItemIdx % length
StartCursors(its) == IF Len(its) = 0 THEN {NaN} ELSE 0..(Len(its) - 1)

RenderWall ==
  /\ lastCall = "init"
  /\ LET rendered == renderWall(cachedCalculations, books, images,
                                innerWidth, innerHeight)
         result == rendered[1]
     IN /\ wall' = result
        /\ items' = result.items
        /\ cachedCalculations' = rendered[2]
        /\ coverFlowChildren' = result.columns
  /\ lastCall' = "render"
  /\ UNCHANGED <<books, images, innerWidth, innerHeight, currentColumns,
                 coverFlowOffset, lastTimestamp, isRunning, animationFrameId,
                 rafQueue, now, placed, packed, others>>

PackColumn(cursor) ==
  /\ lastCall \in {"render", "pack"}
  /\ packed' = [cursor |-> cursor,
                basic |-> addColumnToRight(items, innerHeight, cursor),
                optimized |-> addColumnToRightOptimized(
                                precacheItemDimensions(items), items,
                                innerHeight, cursor)]
  /\ lastCall' = "pack"
  /\ UNCHANGED <<books, images, cachedCalculations, items, innerWidth,
                 innerHeight, coverFlowChildren, currentColumns,
                 coverFlowOffset, lastTimestamp, isRunning, animationFrameId,
                 rafQueue, now, placed, wall, others>>

LayoutNext ==
  \/ RenderWall
  \/ \E cursor \in StartCursors(items) : PackColumn(cursor)

LayoutSpec == LayoutInit /\ [][LayoutNext]_vars

---------------------------------------------------------------------------
(* Properties of the wall builder and the packer *)

Rendered == lastCall \in {"render", "pack"}
Packed == lastCall = "pack"

\* The number of times the packer's while body ran
Passes(result) == result.repeats + (IF result.filled THEN 1 ELSE 0)

PackedWithinRepeats(result) ==
  /\ Passes(result) <= MAX_REPEATS
  /\ Len(result.col.div) <= MAX_REPEATS * Len(items)
  /\ result.filled => result.col.height >= innerHeight
  /\ ~result.filled =>
       /\ result.repeats = MAX_REPEATS
       /\ Len(items) > 0 => result.col.height < innerHeight

\* C3: packing one column ends, for every item sequence (lengths 0 and 1
\* included), start cursor and target height, after at most MAX_REPEATS passes
\* over the sequence; a column that did not reach the target is returned
\* underfull.
C3_PackingEnds ==
  Packed => /\ PackedWithinRepeats(packed.basic)
            /\ PackedWithinRepeats(packed.optimized)

C3_Witness ==
  /\ Packed
  /\ Len(items) = 1
  /\ ~packed.basic.filled
  /\ ~packed.optimized.filled
  /\ Len(packed.basic.col.div) = MAX_REPEATS
  /\ packed.basic.col.height < innerHeight
  /\ packed.basic.col.height > 0

ItemsOf(column) == [k \in 1..Len(column.div) |-> items[column.div[k] + 1]]

C7Scenario ==
  /\ Rendered
  /\ books = FiveBookShelf
  /\ AllPresent(images)
  /\ innerWidth = 600
  /\ innerHeight = 900

\* C7: five books read in 2020, 2020, 2021, 2021, 2021, every cover 320 px,
\* dividers 80 px, viewport 600 x 900: renderWall makes exactly 3 columns,
\* column 0 holds [YearDivider(2020), Book0, Book1, YearDivider(2021), Book2]
\* (1120 px) and column 1 goes on with Book3, Book4.
C7_FiveBookWall ==
  C7Scenario =>
    /\ Len(wall.columns) = 3
    /\ ItemsOf(wall.columns[1]) =
         <<YearDivider(2020), BookItem(books[1], images[1], 0),
           BookItem(books[2], images[2], 1), YearDivider(2021),
           BookItem(books[3], images[3], 2)>>
    /\ wall.columns[1].height = 1120
    /\ SubSeq(ItemsOf(wall.columns[2]), 1, 2) =
         <<BookItem(books[4], images[4], 3), BookItem(books[5], images[5], 4)>>

C7_Witness == C7Scenario /\ Len(wall.columns[2].div) >= 2

\* C10 as stated: when the item sequence is empty, renderWall returns zero
\* columns and resume cursor 0, whatever the viewport width.
C10_EmptyWallAsStated ==
  (Rendered /\ Len(wall.items) = 0) =>
     /\ Len(wall.columns) = 0
     /\ wall.nextItemIdx = 0

\* What an entry adds to its column: a book min(naturalHeight *
\* COLUMN_WIDTH / naturalWidth, MAX_IMAGE_HEIGHT), a divider
\* YEAR_TAG_HEIGHT + YEAR_TAG_MARGIN
StatedHeight(item) ==
  IF item.type = "book"
    THEN Min((item.image.naturalHeight * COLUMN_WIDTH)
               \div item.image.naturalWidth, MAX_IMAGE_HEIGHT)
    ELSE YEAR_TAG_HEIGHT + YEAR_TAG_MARGIN

RECURSIVE SumOfHeights(_)
SumOfHeights(entries) ==
  IF entries = <<>> THEN 0
  ELSE StatedHeight(Head(entries)) + SumOfHeights(Tail(entries))

\* The fill rule for one column and target height
FillRule(column, target) ==
  LET entries == ItemsOf(column)
      n == Len(entries)
  IN /\ column.height = SumOfHeights(entries)
     /\ \A k \in 1..(n - 1) : SumOfHeights(SubSeq(entries, 1, k)) < target
     /\ (column.height >= target /\ n > 0) =>
          /\ column.height - StatedHeight(entries[n]) < target
          /\ column.height < target + MAX_IMAGE_HEIGHT

\* The columns made so far: the wall's, and the two packers' once they ran
ColumnsMade ==
  {wall.columns[c] : c \in 1..Len(wall.columns)} \cup
  (IF Packed THEN {packed.basic.col, packed.optimized.col} ELSE {})

RECURSIVE PackedInTurn(_, _, _, _, _)
PackedInTurn(numCols, its, height, cursor, columns) ==
  IF numCols = 0
    THEN [columns |-> columns, nextItemIdx |-> cursor]
    ELSE LET result == addColumnToRight(its, height, cursor)
         IN PackedInTurn(numCols - 1, its, height, result.next,
                         Append(columns, result.col))

WallByPacker ==
  PackedInTurn(numColsFor(innerWidth), items, innerHeight, 0, <<>>)

\* C24 as stated: for every non-empty sequence, column count and target
\* height the columns and the resume cursor of fillColumns are those of the
\* single-column packer called once per column from cursor 0, each call
\* with its own budget of MAX_REPEATS passes.
C24_WallEqualsPackingAsStated ==
  (Rendered /\ Len(items) > 0) =>
    /\ wall.columns = WallByPacker.columns
    /\ wall.nextItemIdx = WallByPacker.nextItemIdx

---------------------------------------------------------------------------
(* The running system: a loaded shelf, wall builds (renderWall followed by *)
(* start, as BookCoverFlowApp.buildWall does), stop, window resizes and    *)
(* the host's animation frames                                             *)

StartTime == 5000       \* the host clock when the shelf has loaded, ms
MaxTime == 25000        \* frames are delivered up to this host time, ms

\* ms between two frames: none, less than one column's worth of scrolling,
\* more than two columns' worth (a throttled or backgrounded tab)
Deltas == {0, 5000, 15000}
Widths == {0, 300}            \* window.innerWidth
Heights == {300, 900}         \* window.innerHeight

AnimBooks == {Book(NoReadAt, ShortImage), Book(DateIn(2020), TallImage),
              Book(DateIn(2021), TallImage)}

\* Which covers preloadImages delivered: all, none, or all but the first
LoadMasks(bs) ==
  {AllLoaded(bs), NoneLoaded(bs), [i \in 1..Len(bs) |-> i > 1]}

Init ==
  /\ books \in ShelvesOf(AnimBooks, MaxBooks)
  /\ images = Preloaded(books, NoneLoaded(books))
  /\ innerWidth \in Widths
  /\ innerHeight \in Heights
  /\ now = StartTime
  /\ Constructed

\* buildWall, from the resolved preloadImages on: renderWall, then start
WallBuilt(loaded) ==
  /\ Len(books) > 0
  /\ \E rendered \in {renderWall(cachedCalculations, books,
                                   Preloaded(books, loaded),
                                   innerWidth, innerHeight)} :
       \E started \in {start(animationFrameId, rafQueue, rendered[1].columns,
                              innerHeight, rendered[1].items,
                              rendered[1].nextItemIdx)} :
          /\ images' = Preloaded(books, loaded)
          /\ wall' = rendered[1]
          /\ items' = rendered[1].items
          /\ cachedCalculations' = rendered[2]
          /\ coverFlowChildren' = rendered[1].columns
          /\ placed' = [c \in 1..Len(rendered[1].columns) |->
                          rendered[1].columns[c].div]
          /\ coverFlowOffset' = started.coverFlowOffset
          /\ lastTimestamp' = started.lastTimestamp
          /\ currentColumns' = started.currentColumns
          /\ isRunning' = started.isRunning
          /\ animationFrameId' = started.animationFrameId
          /\ rafQueue' = started.rafQueue
  /\ lastCall' = IF isRunning THEN "restart" ELSE "start"
  /\ UNCHANGED <<books, innerWidth, innerHeight, now, packed>>

BuildWall(loaded) == WallBuilt(loaded) /\ UNCHANGED others

\* Variant: stop() also empties the wall and resets the offset
StopTearingDown ==
  /\ LET stopped == stop(animationFrameId, rafQueue)
     IN /\ animationFrameId' = stopped.animationFrameId
        /\ rafQueue' = stopped.rafQueue
        /\ isRunning' = stopped.isRunning
  /\ lastCall' = "stop"
  /\ currentColumns' = <<>>
  /\ coverFlowChildren' = <<>>
  /\ coverFlowOffset' = 0
  /\ UNCHANGED <<books, images, cachedCalculations, items, innerWidth,
                 innerHeight, lastTimestamp, now, placed, wall, packed, others>>

Stop ==
  /\ LET stopped == stop(animationFrameId, rafQueue)
     IN /\ animationFrameId' = stopped.animationFrameId
        /\ rafQueue' = stopped.rafQueue
        /\ isRunning' = stopped.isRunning
  /\ lastCall' = "stop"
  /\ UNCHANGED <<books, images, cachedCalculations, items, innerWidth,
                 innerHeight, coverFlowChildren, currentColumns,
                 coverFlowOffset, lastTimestamp, now, placed, wall, packed, others>>

\* The host runs the pending callback f, delta ms after the previous frame
Tick(f, delta) ==
  /\ f \in rafQueue
  /\ now + delta <= MaxTime
  /\ now' = now + delta
  /\ lastCall' = "tick"
  /\ IF ~isRunning
       THEN /\ rafQueue' = rafQueue \ {f}
            /\ UNCHANGED <<coverFlowChildren, currentColumns, coverFlowOffset,
                           lastTimestamp, animationFrameId, placed>>
       ELSE \E after \in {animateCoverFlow(f, now + delta, currentColumns,
                                            coverFlowChildren, coverFlowOffset,
                                            lastTimestamp, innerWidth)},
               id \in {requestId(rafQueue \ {f})} :
               /\ lastTimestamp' = after.lastTimestamp
               /\ currentColumns' = after.currentColumns
               /\ coverFlowChildren' = after.coverFlowChildren
               /\ coverFlowOffset' = after.coverFlowOffset
               /\ placed' = placed \o after.synthesized
               /\ animationFrameId' = id
               /\ rafQueue' = (rafQueue \ {f}) \cup
                    {Frame(id, f.items, f.height, after.nextItemIdx)}
  /\ UNCHANGED <<books, images, cachedCalculations, items, innerWidth,
                 innerHeight, isRunning, wall, packed, others>>

\* The window is resized (its height is the one the shelf was opened with):
\* handleResize, when the animation runs, calls cleanup() and buildWall(),
\* which stops the animation at once and leaves the rebuild to the resolved
\* preloadImages (BuildWall)
Resize(width) ==
  /\ width # innerWidth
  /\ innerWidth' = width
  /\ IF isRunning
       THEN \E stopped \in {stop(animationFrameId, rafQueue)} :
              /\ cachedCalculations' = cleanup(cachedCalculations)
              /\ renderer' = cleanupRenderer(renderer)
              /\ animationFrameId' = stopped.animationFrameId
              /\ rafQueue' = stopped.rafQueue
              /\ isRunning' = stopped.isRunning
              /\ lastCall' = "stop"
       ELSE UNCHANGED <<cachedCalculations, renderer, animationFrameId,
                        rafQueue, isRunning, lastCall>>
  /\ UNCHANGED <<books, images, items, innerHeight, coverFlowChildren,
                 currentColumns, coverFlowOffset, lastTimestamp, now, placed,
                 wall, packed, loader, exchange, tick, service, app>>

Next ==
  \/ \E loaded \in LoadMasks(books) : BuildWall(loaded)
  \/ Stop
  \/ \E f \in rafQueue, delta \in Deltas : Tick(f, delta)
  \/ \E width \in Widths : Resize(width)

Spec == Init /\ [][Next]_vars

---------------------------------------------------------------------------
(* Properties of the running system *)

RECURSIVE Flatten(_)
Flatten(divs) ==
  IF divs = <<>> THEN <<>> ELSE Head(divs) \o Flatten(Tail(divs))

\* Every entry placed since the last wall build: the wall's columns in
\* order, then each synthesized column in order
PlacedWalk == Flatten(placed)

Synthesized == Len(placed) - Len(wall.columns)

\* C1: with a non-empty item sequence, the entries placed into the wall's
\* columns followed by those placed into the columns synthesized so far
\* are items[0], items[1], ... in order, wrapping from the last index to 0:
\* nothing is skipped or repeated at the seam or between two synthesized
\* columns.
C1_SeamContinuity ==
  Len(items) > 0 =>
    \A k \in 1..Len(PlacedWalk) : PlacedWalk[k] = (k - 1) % Len(items)

\* Two columns synthesized after a wall that stopped mid-sequence, and the
\* walk has wrapped
C1_Witness ==
  /\ lastCall = "tick"
  /\ Len(items) > 1
  /\ wall.nextItemIdx > 0
  /\ Synthesized >= 2
  /\ Len(PlacedWalk) > 2 * Len(items)

\* The k-th entry placed since the last wall build
EntryPlaced(k) == items[PlacedWalk[k] + 1]

IsDivider(item) == item.type = "year-divider"

\* item is a book whose read-year is year
BookOfYear(item, year) ==
  item.type = "book" /\ extractYearFromBook(item.book) = year

\* The walk positions at which the sequence was entered again at index 0
Wraps == {k \in 2..Len(PlacedWalk) : PlacedWalk[k] = 0}

\* The books of the sequence that have a read-year, as 1-based positions
DatedPositions ==
  {j \in 1..Len(items) :
     items[j].type = "book" /\ TruthyYear(extractYearFromBook(items[j].book))}

\* C25: in the stream of entries placed since the wall was built (wall
\* columns, then synthesized columns, across wrap-arounds) no two year
\* dividers are adjacent, every divider that has a successor is directly
\* followed by a book of the divider's year, and after each wrap to index 0
\* the first dated book placed is directly preceded by its year's divider.
C25_DividersAcrossWraps ==
  /\ \A k \in 1..(Len(PlacedWalk) - 1) :
       IsDivider(EntryPlaced(k)) =>
         /\ ~IsDivider(EntryPlaced(k + 1))
         /\ BookOfYear(EntryPlaced(k + 1), EntryPlaced(k).year)
  /\ \A k \in Wraps :
       DatedPositions # {} =>
         LET first == CHOOSE j \in DatedPositions :
                        \A other \in DatedPositions : j <= other
             at == k + first - 1
         IN at <= Len(PlacedWalk) =>
              /\ EntryPlaced(at) = items[first]
              /\ IsDivider(EntryPlaced(at - 1))
              /\ EntryPlaced(at - 1).year = extractYearFromBook(items[first].book)
              /\ at - 1 >= k

\* The walk wrapped twice over a shelf whose last and first dated books share
\* the year, a synthesized column begins with the divider placed again, and
\* a column ends on a divider
C25_Witness ==
  /\ lastCall = "tick"
  /\ Synthesized >= 1
  /\ Cardinality(Wraps) >= 2
  /\ Cardinality({extractYearFromBook(items[j].book) : j \in DatedPositions}) = 1
  /\ \E c \in (Len(wall.columns) + 1)..Len(placed) :
       Len(placed[c]) > 0 /\ IsDivider(items[placed[c][1] + 1])
  /\ \E c \in 1..Len(placed) :
       Len(placed[c]) > 0 /\ IsDivider(items[placed[c][Len(placed[c])] + 1])

\* C2 as stated, its lower bound: after every tick executed while Running
\* the offset is at least -columnWidth (the offset has been brought back
\* into one column-width window).
C2_RenormalizedAsStated ==
  (isRunning /\ lastCall = "tick") =>
     coverFlowOffset >= -Milli(COLUMN_WIDTH)

\* C8: stop() leaves the controller Stopped with no frame callback pending
\* and no frame id held, whatever state it was called in; and while the
\* controller stays Stopped no step changes the offset, the tracked
\* columns, the container's children or the columns placed, and no frame
\* callback is pending.
C8_Cancellation ==
  /\ [](lastCall = "stop" =>
          ~isRunning /\ rafQueue = {} /\ animationFrameId = NullId)
  /\ [](~isRunning => rafQueue = {})
  /\ [][(~isRunning /\ ~isRunning') =>
          UNCHANGED <<coverFlowOffset, currentColumns, coverFlowChildren,
                      placed, rafQueue>>]_vars

\* stop() called mid-scroll, after a column was synthesized
C8_Witness ==
  /\ lastCall = "stop"
  /\ coverFlowOffset < 0
  /\ Synthesized >= 1

\* C9: at most one frame callback is pending, isAnimationRunning() is true
\* exactly when one is, and the pending callback is the one whose id the
\* controller holds, closed over the items and height of the latest
\* start(); right after a start(), Running or not before it, the offset is
\* 0, the tracked columns are the supplied ones, and the only pending
\* callback is the new loop's first, its cursor the supplied one modulo
\* the item count.
C9_ReentrantStart ==
  /\ Cardinality(rafQueue) <= 1
  /\ isRunning <=> rafQueue # {}
  /\ \A f \in rafQueue :
        /\ f.id = animationFrameId
        /\ f.items = items
        /\ f.height = innerHeight
  /\ lastCall \in {"start", "restart"} =>
        /\ coverFlowOffset = 0
        /\ lastTimestamp = NullTime
        /\ currentColumns = wall.columns
        /\ \A f \in rafQueue :
              f.nextItemIdx = modLength(wall.nextItemIdx, Len(wall.items))

\* start() called while Running, after the old loop had scrolled and
\* advanced its cursor
C9_Witness ==
  /\ lastCall = "restart"
  /\ now > StartTime
  /\ Len(items) > 0
  /\ isRunning

\* C11 as stated: start() is never invoked with a zero-length item
\* sequence, whatever the outcome of the image loads.
C11_NoEmptyStartAsStated ==
  lastCall \in {"start", "restart"} => Len(items) > 0

\* C17 as stated: the item sequence a wall build gets from the memoized
\* createBookItemsWithYearDividers is the one a renderer with a cold cache
\* computes for the same books and images.
C17_CacheTransparentAsStated ==
  lastCall \in {"start", "restart"} => items = buildItems(books, images)

---------------------------------------------------------------------------
(* The image loader alone: one preloadImages call, public/js/image-loader.js *)

MaxLoadBooks == 4       \* longest book list given to preloadImages

EmptySlot == -2         \* an array index never assigned
NullSlot == -1          \* images[idx] = null

\* images[idx] = value on a JavaScript array (idx 0-based): the array grows
\* to idx + 1, the indices in between stay unassigned
assignAt(arr, idx, value) ==
  [k \in 1..(IF idx + 1 > Len(arr) THEN idx + 1 ELSE Len(arr)) |->
     IF k = idx + 1 THEN value
     ELSE IF k <= Len(arr) THEN arr[k]
     ELSE EmptySlot]

\* Variant: resolves as soon as one book is still outstanding
checkCompleteOneShort(st) ==
  IF st.loaded + st.failed >= st.total - 1
    THEN [st EXCEPT !.resolves = Append(@, st.images),
                    !.resolvedAfter = Append(@, Len(st.reported))]
    ELSE st

\* checkComplete(loaded, failed, total, images, resolve); resolvedAfter
\* records how many progress calls preceded the resolve
checkComplete(st) ==
  IF st.loaded + st.failed = st.total
    THEN [st EXCEPT !.resolves = Append(@, st.images),
                    !.resolvedAfter = Append(@, Len(st.reported))]
    ELSE st

\* this.onProgress?.(loaded, failed, total): the call is recorded when a
\* callback is registered
onProgress(st) ==
  IF st.registered
    THEN [st EXCEPT !.reported = Append(@, <<st.loaded, st.failed, st.total>>)]
    ELSE st

\* The forEach callback for a book without image_url (`if (!imgSrc)`)
settleWithoutUrl(st, idx) ==
  LET counted == onProgress([st EXCEPT !.loaded = @ + 1])
  IN checkComplete([counted EXCEPT !.images = assignAt(@, idx, NullSlot)])

\* The forEach callback for a book with image_url: new Image(), img.src
startLoad(st, idx) ==
  [st EXCEPT !.pending = @ \cup {idx}, !.attempted = @ \cup {idx}]

\* books.forEach((book, idx) => ...) from idx on
RECURSIVE preloadLoop(_, _)
preloadLoop(st, idx) ==
  IF idx >= st.total THEN st
  ELSE preloadLoop(IF st.urls[idx + 1] THEN startLoad(st, idx)
                                       ELSE settleWithoutUrl(st, idx),
                   idx + 1)

\* The closure of one call: urls[i] says whether book i has an image_url
\* and registered whether setProgressCallback was called before
LoaderCalled(urls, registered) ==
  [phase |-> "loading", urls |-> urls, total |-> Len(urls),
   loaded |-> 0, failed |-> 0, images |-> <<>>,
   pending |-> {}, attempted |-> {}, succeeded |-> {}, resolves |-> <<>>,
   registered |-> registered, reported |-> <<>>, resolvedAfter |-> <<>>]

\* preloadImages(books), up to the return of the promise
preloadImages(urls, registered) ==
  LET st == LoaderCalled(urls, registered)
  IN IF st.total = 0
       THEN LET told == onProgress(st)
            IN [told EXCEPT !.resolves = Append(@, <<>>),
                            !.resolvedAfter = Append(@, Len(told.reported))]
       ELSE preloadLoop(st, 0)

\* img.onload of book idx; the loaded image is named by its index
onload(st, idx) ==
  checkComplete(onProgress([st EXCEPT !.loaded = @ + 1,
                                      !.images = assignAt(@, idx, idx),
                                      !.pending = @ \ {idx},
                                      !.succeeded = @ \cup {idx}]))

\* Variant: a failed load is not reported
onerrorSilent(st, idx) ==
  checkComplete([st EXCEPT !.failed = @ + 1,
                           !.images = assignAt(@, idx, NullSlot),
                           !.pending = @ \ {idx}])

\* img.onerror of book idx
onerror(st, idx) ==
  checkComplete(onProgress([st EXCEPT !.failed = @ + 1,
                                      !.images = assignAt(@, idx, NullSlot),
                                      !.pending = @ \ {idx}]))

LoaderInit ==
  /\ loader \in {[phase |-> "idle", urls |-> urls, registered |-> registered] :
                   urls \in UNION {[1..n -> BOOLEAN] : n \in 0..MaxLoadBooks},
                   registered \in BOOLEAN}
  /\ exchange = NoExchange
  /\ tick = NoTick
  /\ NoShelf

PreloadImages ==
  /\ loader.phase = "idle"
  /\ loader' = preloadImages(loader.urls, loader.registered)
  /\ UNCHANGED <<core, exchange, tick, renderer, service, app>>

OnLoad(idx) ==
  /\ loader.phase = "loading"
  /\ idx \in loader.pending
  /\ loader' = onload(loader, idx)
  /\ UNCHANGED <<core, exchange, tick, renderer, service, app>>

OnError(idx) ==
  /\ loader.phase = "loading"
  /\ idx \in loader.pending
  /\ loader' = onerror(loader, idx)
  /\ UNCHANGED <<core, exchange, tick, renderer, service, app>>

LoaderNext ==
  \/ PreloadImages
  \/ \E idx \in 0..(MaxLoadBooks - 1) : OnLoad(idx)
  \/ \E idx \in 0..(MaxLoadBooks - 1) : OnError(idx)

LoaderSpec == LoaderInit /\ [][LoaderNext]_vars

Loading == loader.phase = "loading"

\* C12: the promise of preloadImages is resolved at most once, and it is
\* resolved exactly when no book is outstanding any more; the list it is
\* resolved with has the length of the book list, slot i holding book i's
\* image when its load succeeded and null when it failed or the book has no
\* image URL; a network load is only ever started for a book with an image
\* URL.
C12_LoaderCompletion ==
  Loading =>
    /\ Len(loader.resolves) <= 1
    /\ (Len(loader.resolves) = 1) <=> (loader.pending = {})
    /\ loader.loaded + loader.failed + Cardinality(loader.pending) = loader.total
    /\ \A idx \in loader.attempted : loader.urls[idx + 1]
    /\ Len(loader.resolves) = 1 =>
         /\ Len(loader.resolves[1]) = Len(loader.urls)
         /\ \A i \in 1..Len(loader.urls) :
              loader.resolves[1][i] =
                IF (i - 1) \in loader.succeeded THEN i - 1 ELSE NullSlot

\* Resolved after a load, a failure and a book without URL, the book without
\* URL not being the last of the list
C12_Witness ==
  /\ Loading
  /\ Len(loader.resolves) = 1
  /\ loader.total >= 3
  /\ ~loader.urls[1]
  /\ loader.loaded >= 2
  /\ loader.failed >= 1
  /\ loader.resolves[1][loader.total] # NullSlot

\* C31: with a registered callback and total > 0 books the callback is
\* invoked once per settled book, with the current (loaded, failed, total);
\* loaded + failed grows by exactly 1 from call to call and neither counter
\* decreases; when the promise resolves there have been exactly total calls,
\* the last with loaded + failed = total, all before the resolve; for an
\* empty list there is one call (0, 0, 0) before the resolve.  Without a
\* registered callback nothing is reported.
C31_ImageProgress ==
  Loading =>
    LET reported == loader.reported
        n == Len(reported)
    IN /\ ~loader.registered => reported = <<>>
       /\ (loader.registered /\ loader.total = 0) =>
            /\ reported = << <<0, 0, 0>> >>
            /\ loader.resolvedAfter = <<1>>
       /\ (loader.registered /\ loader.total > 0) =>
            /\ n = loader.loaded + loader.failed
            /\ n <= loader.total
            /\ n > 0 => reported[n] = <<loader.loaded, loader.failed, loader.total>>
            /\ \A k \in 1..n :
                 /\ reported[k][3] = loader.total
                 /\ reported[k][1] + reported[k][2] = k
                 /\ k > 1 => /\ reported[k][1] >= reported[k - 1][1]
                             /\ reported[k][2] >= reported[k - 1][2]
            /\ Len(loader.resolves) = 1 =>
                 /\ n = loader.total
                 /\ reported[n][1] + reported[n][2] = loader.total
                 /\ loader.resolvedAfter = <<loader.total>>

\* Resolved after loads and failures reported in an interleaved order
C31_Witness ==
  /\ Loading
  /\ loader.registered
  /\ Len(loader.resolves) = 1
  /\ loader.total = MaxLoadBooks
  /\ Len(loader.reported) = MaxLoadBooks
  /\ loader.reported[2] = <<1, 1, MaxLoadBooks>>
  /\ loader.reported[3] = <<2, 1, MaxLoadBooks>>
  /\ loader.failed >= 2

---------------------------------------------------------------------------
(* The RSS proxy: handler(req, res) and handleSinglePage *)

MaxParamLen == 2        \* longest query parameter value

\* A query parameter: absent from req.query, or a string (its characters)
Absent == [given |-> FALSE, text |-> <<>>]
Given(text) == [given |-> TRUE, text |-> text]

DigitChars == <<"0", "1", "2", "3", "4", "5", "6", "7", "8", "9">>
Digits == {DigitChars[i] : i \in 1..Len(DigitChars)}
Letters == {"a", "d", "e", "r", "x"}    \* the letters the requests here use

\* /^\d+$/.test(text)
isNumeric(text) ==
  Len(text) > 0 /\ \A i \in 1..Len(text) : text[i] \in Digits

\* /^[a-zA-Z0-9_-]+$/.test(text)
isSlug(text) ==
  /\ Len(text) > 0
  /\ \A i \in 1..Len(text) : text[i] \in Letters \cup Digits \cup {"_", "-"}

\* A JavaScript number that may be NaN
Number(n) == [nan |-> FALSE, value |-> n]
NotANumber == [nan |-> TRUE, value |-> 0]

RECURSIVE skipWhitespace(_)
skipWhitespace(text) ==
  IF text # <<>> /\ Head(text) = " " THEN skipWhitespace(Tail(text)) ELSE text

\* The value of the longest prefix of decimal digits, continuing from acc;
\* <<value, number of digits read>>
RECURSIVE readDigits(_, _, _)
readDigits(text, acc, count) ==
  IF text # <<>> /\ Head(text) \in Digits
    THEN readDigits(Tail(text),
                    10 * acc + (CHOOSE d \in 0..9 : DigitChars[d + 1] = Head(text)),
                    count + 1)
    ELSE <<acc, count>>

\* parseInt(text, 10): leading whitespace, an optional sign, then the longest
\* run of digits; whatever follows is ignored; NaN without a digit
parseInt(text) ==
  LET trimmed == skipWhitespace(text)
      signed == trimmed # <<>> /\ Head(trimmed) \in {"-", "+"}
      negative == signed /\ Head(trimmed) = "-"
      read == readDigits(IF signed THEN Tail(trimmed) ELSE trimmed, 0, 0)
  IN IF read[2] = 0 THEN NotANumber
     ELSE Number(IF negative THEN -read[1] ELSE read[1])

\* The defaults of `const { userId, shelf = 'read', key, page = '1' } = req.query`
orDefault(param, text) == IF param.given THEN param.text ELSE text

SecurityHeaders ==
  {<<"X-Content-Type-Options", "nosniff">>,
   <<"X-Frame-Options", "DENY">>,
   <<"X-XSS-Protection", "1; mode=block">>,
   <<"Referrer-Policy", "strict-origin-when-cross-origin">>}

Request(method, userId, shelf, page) ==
  [phase |-> "received", method |-> method, userId |-> userId,
   shelf |-> shelf, page |-> page, status |-> 0, error |-> "",
   headers |-> {}, validated |-> FALSE, fetching |-> FALSE,
   fetched |-> FALSE, pageNum |-> NotANumber, outcome |-> "none",
   timer |-> FALSE]

\* res.status(code).json({ error })
respondError(ex, code, message) ==
  [ex EXCEPT !.phase = "responded", !.status = code, !.error = message,
             !.fetching = FALSE, !.timer = FALSE]

\* The try block of handler up to the call of handleSinglePage
validateAndFetch(ex) ==
  LET shelf == orDefault(ex.shelf, <<"r", "e", "a", "d">>)
      pageNum == parseInt(orDefault(ex.page, <<"1">>))
      read == [ex EXCEPT !.validated = TRUE]
  IN IF ~ex.userId.given \/ ex.userId.text = <<>>
       THEN respondError(read, 400, "Missing required parameter \"userId\"")
     ELSE IF ~isNumeric(ex.userId.text)
       THEN respondError(read, 400, "Invalid userId format. Must be numeric.")
     ELSE IF shelf # <<>> /\ ~isSlug(shelf)
       THEN respondError(read, 400,
              "Invalid shelf format. Only alphanumeric characters, hyphens, and underscores allowed.")
     ELSE IF pageNum.nan \/ pageNum.value < 1
       THEN respondError(read, 400, "Invalid page number")
     ELSE [read EXCEPT !.phase = "fetching", !.fetching = TRUE,
                       !.fetched = TRUE, !.pageNum = pageNum,
                       !.timer = TRUE]

\* Variant: the security headers are set once the input has been validated
handlerHeadersAfterValidation(ex) ==
  IF ex.method # "GET"
    THEN respondError([ex EXCEPT !.headers = @ \cup {<<"Allow", "GET">>}],
                      405, "Method not allowed")
    ELSE LET done == validateAndFetch(ex)
         IN IF done.phase = "responded" THEN done
            ELSE [done EXCEPT !.headers = @ \cup SecurityHeaders]

\* Variant: no method guard
handlerAnyMethod(ex) ==
  validateAndFetch([ex EXCEPT !.headers = @ \cup SecurityHeaders])

\* handler(req, res) up to `await fetch(...)` or to the response
handler(ex) ==
  IF ex.method # "GET"
    THEN respondError([ex EXCEPT !.headers = @ \cup {<<"Allow", "GET">>}],
                      405, "Method not allowed")
    ELSE validateAndFetch([ex EXCEPT !.headers = @ \cup SecurityHeaders])

\* What the awaited fetch chain ends with: the parsed feed, or a thrown error
UpstreamOutcomes == {"ok", "not-ok", "network", "abort", "parse"}

\* The error thrown in handleSinglePage's try block, as <<name, message>>;
\* the message is a sequence of its parts
thrown(outcome) ==
  CASE outcome = "not-ok" ->
         [name |-> "Error", message |-> <<"Goodreads returned", "503", "for", "url">>]
    [] outcome = "network" ->
         [name |-> "TypeError", message |-> <<"fetch failed">>]
    [] outcome = "abort" ->
         [name |-> "AbortError", message |-> <<"This operation was aborted">>]
    [] OTHER ->
         [name |-> "Error", message |-> <<"xml parse error">>]

\* err.message.includes(part)
includes(message, part) == \E i \in 1..Len(message) : message[i] = part

\* The rest of handleSinglePage and the catch block of handler
settle(ex, outcome) ==
  IF outcome = "ok"
    THEN [ex EXCEPT !.phase = "responded", !.status = 200, !.fetching = FALSE,
                    !.timer = FALSE]
  ELSE LET err == thrown(outcome)
       IN IF err.name = "AbortError"
            THEN respondError(ex, 504,
                   "Request timeout - Goodreads is taking too long to respond")
          ELSE IF includes(err.message, "Goodreads returned")
            THEN respondError(ex, 502,
                   "Unable to fetch data from Goodreads. Please try again later.")
          ELSE respondError(ex, 500,
                 "An internal server error occurred. Please try again later.")

RECURSIVE Strings(_, _)
Strings(alphabet, maxLen) ==
  IF maxLen = 0 THEN {<<>>}
  ELSE LET shorter == Strings(alphabet, maxLen - 1)
       IN shorter \cup {Append(t, c) : t \in shorter, c \in alphabet}

Params(alphabet) == {Absent} \cup {Given(t) : t \in Strings(alphabet, MaxParamLen)}

Methods == {"GET", "POST"}

ProxyInit ==
  /\ exchange \in {Request(m, u, sh, pg) :
                     m \in Methods, u \in Params({"7", "x"}),
                     sh \in Params({"r", "/"}),
                     pg \in Params({"0", "2", "x", " ", "-"})}
  /\ loader = NoLoad
  /\ tick = NoTick
  /\ NoShelf

Handle ==
  /\ exchange.phase = "received"
  /\ exchange' = handler(exchange)
  /\ UNCHANGED <<core, loader, tick, renderer, service, app>>

Upstream(outcome) ==
  /\ exchange.phase = "fetching"
  /\ exchange' = [settle(exchange, outcome) EXCEPT !.outcome = outcome]
  /\ UNCHANGED <<core, loader, tick, renderer, service, app>>

ProxyNext ==
  \/ Handle
  \/ \E outcome \in UpstreamOutcomes : Upstream(outcome)

ProxySpec == ProxyInit /\ [][ProxyNext]_vars

(* The upstream attempt stage by stage: the fetch promise, the 10 s abort  *)
(* timer (timer: armed or not) and the reading of the response body        *)

\* The `.then(r => ...)` callback: the response's status line and headers
\* have arrived; the timer is cleared before the body is read
responseArrived(ex, ok) ==
  IF ok THEN [ex EXCEPT !.phase = "reading", !.timer = FALSE]
        ELSE settle([ex EXCEPT !.timer = FALSE], "not-ok")

ResponseArrives(ok) ==
  /\ exchange.phase = "fetching"
  /\ exchange' = [responseArrived(exchange, ok) EXCEPT
                    !.outcome = IF ok THEN @ ELSE "not-ok"]
  /\ UNCHANGED <<core, loader, tick, renderer, service, app>>

\* fetch() rejects, or r.text() rejects while the body is read
ConnectionFails ==
  /\ exchange.phase \in {"fetching", "reading"}
  /\ exchange' = [settle(exchange, "network") EXCEPT !.outcome = "network"]
  /\ UNCHANGED <<core, loader, tick, renderer, service, app>>

\* setTimeout(() => controller.abort(), 10000) fires
TimerFires ==
  /\ exchange.phase \in {"fetching", "reading"}
  /\ exchange.timer
  /\ exchange' = [settle(exchange, "abort") EXCEPT !.outcome = "abort"]
  /\ UNCHANGED <<core, loader, tick, renderer, service, app>>

\* r.text() resolves; parser.parse returns or throws
BodyArrives(outcome) ==
  /\ exchange.phase = "reading"
  /\ exchange' = [settle(exchange, outcome) EXCEPT !.outcome = outcome]
  /\ UNCHANGED <<core, loader, tick, renderer, service, app>>

AttemptNext ==
  \/ Handle
  \/ \E ok \in BOOLEAN : ResponseArrives(ok)
  \/ ConnectionFails
  \/ TimerFires
  \/ \E outcome \in {"ok", "parse"} : BodyArrives(outcome)

\* The handler runs and an armed timer fires; the upstream may stay silent
AttemptSpec ==
  /\ ProxyInit
  /\ [][AttemptNext]_vars
  /\ WF_vars(Handle)
  /\ WF_vars(TimerFires)

(* Properties of the proxy *)

\* /^[+-]?\d+$/ after trimming: the text denotes an integer
denotesInteger(text) ==
  LET trimmed == skipWhitespace(text)
      signed == trimmed # <<>> /\ Head(trimmed) \in {"-", "+"}
  IN isNumeric(IF signed THEN Tail(trimmed) ELSE trimmed)

\* The message of the first failing check of the stated validation, "" if none
statedValidation(ex) ==
  LET shelf == orDefault(ex.shelf, <<"r", "e", "a", "d">>)
      page == orDefault(ex.page, <<"1">>)
  IN IF ~ex.userId.given THEN "Missing required parameter \"userId\""
     ELSE IF ~isNumeric(ex.userId.text)
       THEN IF ex.userId.text = <<>>
              THEN "Missing required parameter \"userId\""
              ELSE "Invalid userId format. Must be numeric."
     ELSE IF ~isSlug(shelf)
       THEN "Invalid shelf format. Only alphanumeric characters, hyphens, and underscores allowed."
     ELSE IF ~denotesInteger(page) \/ parseInt(page).value < 1
       THEN "Invalid page number"
     ELSE ""

\* C13 as stated: a handled GET request is answered 400 exactly when userId is
\* missing or not all digits, or shelf is not a slug, or page is not an
\* integer >= 1, and the body carries the message of the first failing check.
C13_ValidationAsStated ==
  (exchange.phase \in {"fetching", "responded"} /\ exchange.method = "GET") =>
    IF statedValidation(exchange) # ""
      THEN exchange.status = 400 /\ exchange.error = statedValidation(exchange)
      ELSE exchange.status # 400

\* C32 as stated: an upstream fetch is issued only for a GET request whose
\* userId is all digits, whose shelf matches ^[a-zA-Z0-9_-]+$ and whose page
\* parses to an integer >= 1; for every other request none is made.
C32_NoUpstreamOnBadInputAsStated ==
  exchange.fetched =>
    /\ exchange.method = "GET"
    /\ exchange.userId.given
    /\ isNumeric(exchange.userId.text)
    /\ isSlug(orDefault(exchange.shelf, <<"r", "e", "a", "d">>))
    /\ ~parseInt(orDefault(exchange.page, <<"1">>)).nan
    /\ parseInt(orDefault(exchange.page, <<"1">>)).value >= 1

\* C33 as stated: every request eventually receives a response, also when
\* the upstream stalls at any stage of the attempt (never answering, or
\* stalling while the response body is read): the abort timer ends the
\* attempt.
C33_BoundedAttemptAsStated ==
  (exchange.phase # "responded") ~> (exchange.phase = "responded")

\* C14: a handled request whose method is not GET has been answered 405 with
\* error 'Method not allowed' and header Allow: GET, whatever its query, and
\* neither the query was read nor an upstream fetch issued.
C14_MethodGuard ==
  (exchange.phase # "received" /\ exchange.method # "GET") =>
    /\ exchange.phase = "responded"
    /\ exchange.status = 405
    /\ exchange.error = "Method not allowed"
    /\ <<"Allow", "GET">> \in exchange.headers
    /\ ~exchange.validated
    /\ ~exchange.fetched

C14_Witness ==
  /\ exchange.phase = "responded"
  /\ exchange.method = "POST"
  /\ exchange.userId = Given(<<"7">>)
  /\ exchange.shelf = Absent
  /\ exchange.page = Given(<<"2">>)
  /\ exchange.status = 405

\* C15: every response to a GET request (200, 400, 502, 504 or 500) carries
\* the four security headers.
C15_SecurityHeaders ==
  (exchange.phase = "responded" /\ exchange.method = "GET") =>
    /\ exchange.status \in {200, 400, 500, 502, 504}
    /\ SecurityHeaders \subseteq exchange.headers

C15_Witness ==
  /\ exchange.phase = "responded"
  /\ exchange.method = "GET"
  /\ exchange.status = 400
  /\ exchange.error = "Invalid page number"
  /\ SecurityHeaders \subseteq exchange.headers

\* C16 as stated: for a valid GET request a non-OK upstream status or a
\* network-level fetch failure yields 502, a timeout 504, any other internal
\* error 500, and the 500/502 bodies are the fixed generic texts.
C16_ErrorMappingAsStated ==
  (exchange.phase = "responded" /\ exchange.outcome # "none") =>
    /\ exchange.outcome \in {"not-ok", "network"} => exchange.status = 502
    /\ exchange.outcome = "abort" => exchange.status = 504
    /\ exchange.outcome = "parse" => exchange.status = 500
    /\ exchange.status \in {500, 502} =>
         exchange.error \in
           {"Unable to fetch data from Goodreads. Please try again later.",
            "An internal server error occurred. Please try again later."}

---------------------------------------------------------------------------
(* One animation frame, statement by statement: animateCoverFlow of the    *)
(* AnimationController and of its optimized variant.  JavaScript runs the  *)
(* callback to completion, so nothing else happens while a frame is under  *)
(* way.                                                                    *)

MaxTickBooks == 1       \* longest shelf a frame is followed on
MaxTickTime == 20000    \* frames are followed up to this host time, ms
Variants == {"basic", "optimized"}
POOL_LIMIT == 10
VIEWPORT_CACHE_MS == 100

NoFrame == Frame(NullId, <<>>, 0, 0)
NoViewport == [cached |-> FALSE, width |-> 0, timestamp |-> 0]

\* The fields and the closure's cursor a statement of the callback may change
Snapshot(nextItemIdx) ==
  [currentColumns |-> currentColumns, coverFlowChildren |-> coverFlowChildren,
   coverFlowOffset |-> coverFlowOffset, lastTimestamp |-> lastTimestamp,
   nextItemIdx |-> nextItemIdx]

NoSnapshot ==
  [currentColumns |-> <<>>, coverFlowChildren |-> <<>>, coverFlowOffset |-> 0,
   lastTimestamp |-> NullTime, nextItemIdx |-> 0]

\* A controller of the given variant between two frames: the statement to
\* run next (pc), the running callback's closure and timestamp, whether the
\* frame is the first since start() (afterStart), the host time at which it
\* was requested (requestedAt), whether start() has been called a second
\* time (restarted), the
\* statements run so far in the frame (steps), the state before the frame
\* (begin) and before the latest statement (prev), the optimized variant's
\* viewport cache and column pool, and the container's style.transform.
\* Column objects are numbered as they are created: live lists the objects
\* of currentColumns, dom those whose elements are the container's children,
\* pooled those of columnPool (pool is its length), nextId the next number
IdleTick(variant) ==
  [pc |-> "idle", variant |-> variant, frame |-> NoFrame,
   timestamp |-> NullTime, steps |-> <<>>,
   begin |-> NoSnapshot, prev |-> NoSnapshot,
   viewport |-> NoViewport, viewportWidth |-> 0, pool |-> 0,
   transform |-> <<>>, afterStart |-> FALSE, requestedAt |-> NullTime,
   restarted |-> FALSE,
   live |-> <<>>, dom |-> <<>>, pooled |-> <<>>, nextId |-> 0]

\* Variant: the left edge is handled before the right edge
afterRetireFirst(step) ==
  CASE step = "running" -> "advance"
    [] step = "advance" -> "retirement"
    [] step = "retirement" -> "synthesis"
    [] step = "synthesis" -> "transform"
    [] step = "transform" -> "request"
    [] OTHER -> "idle"

\* The statement of animateCoverFlow that follows the given one
after(step) ==
  CASE step = "running" -> "advance"
    [] step = "advance" -> "synthesis"
    [] step = "synthesis" -> "retirement"
    [] step = "retirement" -> "transform"
    [] step = "transform" -> "request"
    [] OTHER -> "idle"

\* getCachedViewportWidth(): the width it returns and the cache afterwards
getCachedViewportWidth(cache, time, width) ==
  IF ~cache.cached \/ time - cache.timestamp > VIEWPORT_CACHE_MS
    THEN [width |-> width,
          viewport |-> [cached |-> TRUE, width |-> width, timestamp |-> time]]
    ELSE [width |-> cache.width, viewport |-> cache]

\* Variant: every retired column is pooled
removeColumnFromLeftOptimizedAlwaysPool(columns, children, offset, colWidth, pool) ==
  IF Len(columns) = 0
    THEN [currentColumns |-> columns, coverFlowChildren |-> children,
          coverFlowOffset |-> offset, pool |-> pool]
  ELSE IF offset + Milli(colWidth) <= 0
    THEN [currentColumns |-> Tail(columns),
          coverFlowChildren |-> IF Len(children) > 0 THEN Tail(children)
                                ELSE children,
          coverFlowOffset |-> offset + Milli(colWidth),
          pool |-> pool + 1]
  ELSE [currentColumns |-> columns, coverFlowChildren |-> children,
        coverFlowOffset |-> offset, pool |-> pool]

\* removeColumnFromLeftOptimized(colWidth), with the size of the column pool
removeColumnFromLeftOptimized(columns, children, offset, colWidth, pool) ==
  IF Len(columns) = 0
    THEN [currentColumns |-> columns, coverFlowChildren |-> children,
          coverFlowOffset |-> offset, pool |-> pool]
  ELSE IF offset + Milli(colWidth) <= 0
    THEN [currentColumns |-> Tail(columns),
          coverFlowChildren |-> IF Len(children) > 0 THEN Tail(children)
                                ELSE children,
          coverFlowOffset |-> offset + Milli(colWidth),
          pool |-> IF pool < POOL_LIMIT THEN pool + 1 ELSE pool]
  ELSE [currentColumns |-> columns, coverFlowChildren |-> children,
        coverFlowOffset |-> offset, pool |-> pool]

\* createOrReuseColumn(): the column object returned, the pool and the next
\* fresh number afterwards
\* Variant: the pooled column is returned but stays in the pool
createOrReuseColumnKeepPooled(pooled, nextId) ==
  IF Len(pooled) > 0
    THEN [id |-> pooled[Len(pooled)], pooled |-> pooled, nextId |-> nextId]
    ELSE [id |-> nextId, pooled |-> pooled, nextId |-> nextId + 1]

createOrReuseColumn(pooled, nextId) ==
  IF Len(pooled) > 0
    THEN [id |-> pooled[Len(pooled)],
          pooled |-> SubSeq(pooled, 1, Len(pooled) - 1), nextId |-> nextId]
    ELSE [id |-> nextId, pooled |-> pooled, nextId |-> nextId + 1]

\* The column made by the basic addColumnToRight: always a new object
createColumn(pooled, nextId) ==
  [id |-> nextId, pooled |-> pooled, nextId |-> nextId + 1]

\* The positions of the container's children other than the given element
RECURSIVE otherChildren(_, _, _)
otherChildren(dom, id, k) ==
  IF k > Len(dom) THEN <<>>
  ELSE (IF dom[k] = id THEN <<>> ELSE <<k>>) \o otherChildren(dom, id, k + 1)

\* coverFlow.appendChild(col.div): an element that is already a child moves
\* to the end.  children are the contents, dom the objects, of the container
appendChild(children, dom, col, id) ==
  LET kept == otherChildren(dom, id, 1)
  IN [coverFlowChildren |->
        Append([k \in 1..Len(kept) |->
                  IF kept[k] <= Len(children) THEN children[kept[k]]
                  ELSE Column(<<>>, 0)], col),
      dom |-> Append([k \in 1..Len(kept) |-> dom[kept[k]]], id)]

\* The objects of the n columns renderWall creates, numbered from nextId
NewColumns(nextId, n) == [c \in 1..n |-> nextId + c - 1]

TickInit ==
  /\ books \in ShelvesOf(AnimBooks, MaxTickBooks)
  /\ images = Preloaded(books, NoneLoaded(books))
  /\ innerWidth \in Widths
  /\ innerHeight \in Heights
  /\ now = StartTime
  /\ ComponentsConstructed
  /\ loader = NoLoad
  /\ exchange = NoExchange
  /\ tick \in {IdleTick(variant) : variant \in Variants}

\* The host calls the pending callback f: `if (!this.isRunning) return`
RunningCheck(f, delta) ==
  /\ tick.pc = "idle"
  /\ f \in rafQueue
  /\ now' = now + delta
  /\ rafQueue' = rafQueue \ {f}
  /\ lastCall' = "tick"
  /\ tick' = [tick EXCEPT !.pc = IF isRunning THEN after("running") ELSE "idle",
                          !.frame = f, !.timestamp = now + delta,
                          !.afterStart = lastCall \in {"start", "restart"},
                          !.requestedAt = now,
                          !.steps = <<"running">>,
                          !.begin = Snapshot(f.nextItemIdx),
                          !.prev = Snapshot(f.nextItemIdx)]
  /\ UNCHANGED <<books, images, cachedCalculations, items, innerWidth,
                 innerHeight, coverFlowChildren, currentColumns,
                 coverFlowOffset, lastTimestamp, isRunning, animationFrameId,
                 placed, wall, packed, loader, exchange, renderer, service, app>>

\* lastTimestamp, delta and `this.coverFlowOffset -= speed * delta / 1000`
AdvanceOffset ==
  /\ tick.pc = "advance"
  /\ LET base == IF FalsyTime(lastTimestamp) THEN tick.timestamp
                                             ELSE lastTimestamp
         delta == tick.timestamp - base
     IN /\ lastTimestamp' = tick.timestamp
        /\ coverFlowOffset' = coverFlowOffset - ANIMATION_SPEED * delta
  /\ tick' = [tick EXCEPT !.pc = after("advance"),
                          !.steps = Append(@, "advance"),
                          !.prev = Snapshot(tick.frame.nextItemIdx)]
  /\ UNCHANGED <<books, images, cachedCalculations, items, innerWidth,
                 innerHeight, coverFlowChildren, currentColumns, isRunning,
                 animationFrameId, rafQueue, now, placed, lastCall, wall,
                 packed, loader, exchange, renderer, service, app>>

\* `if (wallWidth + this.coverFlowOffset ...) nextItemIdx = addColumnToRight...`
SynthesisCheck ==
  /\ tick.pc = "synthesis"
  /\ LET f == tick.frame
         wallWidth == getWallWidth(currentColumns, COLUMN_WIDTH)
     IN \E view \in {IF tick.variant = "basic"
                       THEN [width |-> innerWidth, viewport |-> tick.viewport]
                       ELSE getCachedViewportWidth(tick.viewport, now,
                                                   innerWidth)} :
        \E add \in {IF tick.variant = "basic"
                      THEN Milli(wallWidth) + coverFlowOffset
                             < Milli(view.width + COLUMN_WIDTH)
                      ELSE Milli(wallWidth) + coverFlowOffset
                             <= Milli(view.width)} :
        \E made \in {IF ~add
                       THEN [col |-> Column(<<>>, 0), next |-> f.nextItemIdx]
                     ELSE IF tick.variant = "basic"
                       THEN addColumnToRight(f.items, f.height, f.nextItemIdx)
                     ELSE addColumnToRightOptimized(
                            precacheItemDimensions(f.items), f.items,
                            f.height, f.nextItemIdx)} :
        \E object \in {IF tick.variant = "basic"
                         THEN createColumn(tick.pooled, tick.nextId)
                         ELSE createOrReuseColumn(tick.pooled, tick.nextId)} :
        \E appended \in {appendChild(coverFlowChildren, tick.dom, made.col,
                                      object.id)} :
          /\ currentColumns' = IF add THEN Append(currentColumns, made.col)
                                      ELSE currentColumns
          /\ coverFlowChildren' = IF add THEN appended.coverFlowChildren
                                         ELSE coverFlowChildren
          /\ placed' = IF add THEN Append(placed, made.col.div) ELSE placed
          /\ tick' = [tick EXCEPT
                        !.pc = after("synthesis"),
                        !.steps = Append(@, "synthesis"),
                        !.prev = Snapshot(f.nextItemIdx),
                        !.frame.nextItemIdx = made.next,
                        !.viewport = view.viewport,
                        !.viewportWidth = view.width,
                        !.pool = IF add /\ tick.variant = "optimized" /\ @ > 0
                                   THEN @ - 1 ELSE @,
                        !.live = IF add THEN Append(@, object.id) ELSE @,
                        !.dom = IF add THEN appended.dom ELSE @,
                        !.pooled = IF add THEN object.pooled ELSE @,
                        !.nextId = IF add THEN object.nextId ELSE @]
  /\ UNCHANGED <<books, images, cachedCalculations, items, innerWidth,
                 innerHeight, coverFlowOffset, lastTimestamp, isRunning,
                 animationFrameId, rafQueue, now, lastCall, wall, packed,
                 loader, exchange, renderer, service, app>>

\* `this.removeColumnFromLeft(colWidth)`
RetirementCheck ==
  /\ tick.pc = "retirement"
  /\ \E removed \in {IF tick.variant = "basic"
                       THEN [pool |-> tick.pool] @@
                            removeColumnFromLeft(currentColumns,
                              coverFlowChildren, coverFlowOffset, COLUMN_WIDTH)
                       ELSE removeColumnFromLeftOptimized(currentColumns,
                              coverFlowChildren, coverFlowOffset, COLUMN_WIDTH,
                              tick.pool)} :
       /\ currentColumns' = removed.currentColumns
       /\ coverFlowChildren' = removed.coverFlowChildren
       /\ coverFlowOffset' = removed.coverFlowOffset
       /\ tick' = [tick EXCEPT !.pc = after("retirement"),
                               !.steps = Append(@, "retirement"),
                               !.prev = Snapshot(tick.frame.nextItemIdx),
                               !.pool = removed.pool,
                               !.live = IF Len(removed.currentColumns)
                                             < Len(currentColumns)
                                          THEN Tail(@) ELSE @,
                               !.dom = IF Len(removed.currentColumns)
                                            < Len(currentColumns) /\ Len(@) > 0
                                         THEN Tail(@) ELSE @,
                               !.pooled = IF removed.pool > tick.pool
                                            THEN Append(@, Head(tick.live))
                                            ELSE @]
  /\ UNCHANGED <<books, images, cachedCalculations, items, innerWidth,
                 innerHeight, lastTimestamp, isRunning, animationFrameId,
                 rafQueue, now, placed, lastCall, wall, packed, loader,
                 exchange, renderer, service, app>>

\* `this.coverFlow.style.transform = translateX(offset px)`
ApplyTransform ==
  /\ tick.pc = "transform"
  /\ tick' = [tick EXCEPT !.pc = after("transform"),
                          !.steps = Append(@, "transform"),
                          !.prev = Snapshot(tick.frame.nextItemIdx),
                          !.transform = <<coverFlowOffset>>]
  /\ UNCHANGED <<core, loader, exchange, renderer, service, app>>

\* `this.animationFrameId = requestAnimationFrame(animateCoverFlow)`
RequestFrame ==
  /\ tick.pc = "request"
  /\ \E id \in {requestId(rafQueue)} :
       /\ animationFrameId' = id
       /\ rafQueue' = rafQueue \cup
            {Frame(id, tick.frame.items, tick.frame.height,
                   tick.frame.nextItemIdx)}
  /\ tick' = [tick EXCEPT !.pc = after("request"),
                          !.steps = Append(@, "request"),
                          !.frame = NoFrame, !.timestamp = NullTime,
                          !.requestedAt = NullTime,
                          !.begin = NoSnapshot, !.prev = NoSnapshot]
  /\ UNCHANGED <<books, images, cachedCalculations, items, innerWidth,
                 innerHeight, coverFlowChildren, currentColumns,
                 coverFlowOffset, lastTimestamp, isRunning, now, placed,
                 lastCall, wall, packed, loader, exchange, renderer, service, app>>

\* buildWall while nothing runs; the optimized start() clears
\* cachedDimensions.  The animation is started at most twice.
StartWall(loaded) ==
  /\ tick.pc = "idle"
  /\ ~isRunning
  /\ ~tick.restarted
  /\ WallBuilt(loaded)
  /\ tick' = [tick EXCEPT
                !.viewport = NoViewport, !.steps = <<>>,
                !.restarted = lastCall # "init",
                !.live = NewColumns(tick.nextId, numColsFor(innerWidth)),
                !.dom = NewColumns(tick.nextId, numColsFor(innerWidth)),
                !.nextId = @ + numColsFor(innerWidth)]
  /\ UNCHANGED <<loader, exchange, renderer, service, app>>

\* The host's clock while the animation is stopped
Elapse(delta) ==
  /\ tick.pc = "idle"
  /\ lastCall = "stop"
  /\ delta > 0
  /\ now + delta <= MaxTickTime
  /\ now' = now + delta
  /\ UNCHANGED <<books, images, cachedCalculations, items, innerWidth,
                 innerHeight, coverFlowChildren, currentColumns,
                 coverFlowOffset, lastTimestamp, isRunning, animationFrameId,
                 rafQueue, placed, lastCall, wall, packed, others>>

\* Between frames the wall is built and the animation started, stopped and
\* started again, and the window resized
TickNext ==
  \/ \E loaded \in {AllLoaded(books), NoneLoaded(books)} : StartWall(loaded)
  \/ tick.pc = "idle" /\ isRunning /\ Stop
  \/ \E delta \in Deltas : Elapse(delta)
  \/ \E width \in Widths : tick.pc = "idle" /\ isRunning /\ Resize(width)
  \/ \E f \in rafQueue, delta \in Deltas :
       now + delta <= MaxTickTime /\ RunningCheck(f, delta)
  \/ AdvanceOffset
  \/ SynthesisCheck
  \/ RetirementCheck
  \/ ApplyTransform
  \/ RequestFrame

TickSpec == TickInit /\ [][TickNext]_vars

---------------------------------------------------------------------------
(* A long run: one wall, a window of constant size (the application stops *)
(* the animation when the window is resized) and frames that each move    *)
(* the wall by at most one column width                                    *)

MaxRunTime == 60000     \* frames are followed up to this host time, ms

\* ms between two frames that scroll at most COLUMN_WIDTH
SmallDeltas ==
  {d \in Deltas \cup {2000, 6000} : ANIMATION_SPEED * d <= Milli(COLUMN_WIDTH)}

RunWidths == Widths \cup {400}

RunInit ==
  /\ books \in {<<Book(DateIn(2020), TallImage)>>,
                <<Book(NoReadAt, ShortImage), Book(DateIn(2021), TallImage)>>}
  /\ images = Preloaded(books, NoneLoaded(books))
  /\ innerWidth \in RunWidths
  /\ innerHeight \in Heights
  /\ now = StartTime
  /\ ComponentsConstructed
  /\ loader = NoLoad
  /\ exchange = NoExchange
  /\ tick \in {IdleTick(variant) : variant \in Variants}

RunNext ==
  \/ lastCall = "init" /\ StartWall(AllLoaded(books))
  \/ \E f \in rafQueue, delta \in SmallDeltas :
       now + delta <= MaxRunTime /\ RunningCheck(f, delta)
  \/ AdvanceOffset
  \/ SynthesisCheck
  \/ RetirementCheck
  \/ ApplyTransform
  \/ RequestFrame

RunSpec == RunInit /\ [][RunNext]_vars

(* Properties of one frame *)

LastStep == IF tick.steps = <<>> THEN "none" ELSE tick.steps[Len(tick.steps)]

\* The column the variant's packer makes from the given cursor
packedFrom(nextItemIdx) ==
  IF tick.variant = "basic"
    THEN addColumnToRight(tick.frame.items, tick.frame.height, nextItemIdx)
    ELSE addColumnToRightOptimized(precacheItemDimensions(tick.frame.items),
                                   tick.frame.items, tick.frame.height,
                                   nextItemIdx)

\* C18 as stated: right after the synthesis statement of a frame, a column
\* has been added exactly when (live columns * columnWidth) + offset <=
\* viewportWidth held before it; then it is the one column the packer makes
\* from the tracked cursor, appended to the tracked list and to the
\* container, and the cursor is the packer's; otherwise nothing changed.
C18_SynthesisTriggerAsStated ==
  LastStep = "synthesis" =>
    LET before == tick.prev
        due == Milli(Len(before.currentColumns) * COLUMN_WIDTH)
                 + before.coverFlowOffset <= Milli(innerWidth)
        made == packedFrom(before.nextItemIdx)
    IN IF due
         THEN /\ currentColumns = Append(before.currentColumns, made.col)
              /\ coverFlowChildren = Append(before.coverFlowChildren, made.col)
              /\ tick.frame.nextItemIdx = made.next
         ELSE /\ currentColumns = before.currentColumns
              /\ coverFlowChildren = before.coverFlowChildren
              /\ tick.frame.nextItemIdx = before.nextItemIdx

\* C19: right after the retirement statement of a frame, the leftmost column
\* has been removed exactly when offset + columnWidth <= 0 held before it;
\* then the tracked list and the container lost their first element (and
\* no other), the offset grew by columnWidth, and every remaining column
\* and the wall's right edge are at the x-position they had; otherwise
\* nothing changed.
C19_RetirementCompensation ==
  LastStep = "retirement" =>
    LET before == tick.prev
        colWidth == Milli(COLUMN_WIDTH)
    IN IF before.coverFlowOffset + colWidth <= 0
         THEN /\ Len(before.currentColumns) > 0
              /\ Len(before.coverFlowChildren) > 0
              /\ currentColumns = Tail(before.currentColumns)
              /\ coverFlowChildren = Tail(before.coverFlowChildren)
              /\ coverFlowOffset = before.coverFlowOffset + colWidth
              /\ \A i \in 1..Len(currentColumns) :
                   /\ currentColumns[i] = before.currentColumns[i + 1]
                   /\ (i - 1) * colWidth + coverFlowOffset
                        = i * colWidth + before.coverFlowOffset
              /\ Len(currentColumns) * colWidth + coverFlowOffset
                   = Len(before.currentColumns) * colWidth
                       + before.coverFlowOffset
         ELSE /\ currentColumns = before.currentColumns
              /\ coverFlowChildren = before.coverFlowChildren
              /\ coverFlowOffset = before.coverFlowOffset

C19_Witness ==
  /\ LastStep = "retirement"
  /\ tick.prev.coverFlowOffset + Milli(COLUMN_WIDTH) <= 0
  /\ Len(currentColumns) >= 2
  /\ currentColumns = Tail(tick.prev.currentColumns)
  /\ coverFlowOffset < 0

TickOrder ==
  <<"running", "advance", "synthesis", "retirement", "transform", "request">>

\* C20: the statements of a frame run in the order running-flag check,
\* offset advance, synthesis check, retirement check, transform, frame
\* request: the statements run so far are always a prefix of that order, a
\* finished frame ran all of them or stopped at the running-flag check, no
\* frame is requested before the last statement, and the transform applied
\* is the offset that synthesis followed by retirement leaves.
C20_TickOrdering ==
  /\ Len(tick.steps) <= Len(TickOrder)
  /\ \A i \in 1..Len(tick.steps) : tick.steps[i] = TickOrder[i]
  /\ (tick.pc = "idle" /\ tick.steps # <<>>) =>
       tick.steps \in {TickOrder, <<"running">>}
  /\ tick.pc # "idle" => rafQueue = {}
  /\ (LastStep = "transform" /\ tick.variant = "basic") =>
       LET whole == animateCoverFlow(
                      [tick.frame EXCEPT !.nextItemIdx = tick.begin.nextItemIdx],
                      tick.timestamp, tick.begin.currentColumns,
                      tick.begin.coverFlowChildren, tick.begin.coverFlowOffset,
                      tick.begin.lastTimestamp, innerWidth)
       IN /\ currentColumns = whole.currentColumns
          /\ coverFlowChildren = whole.coverFlowChildren
          /\ coverFlowOffset = whole.coverFlowOffset
          /\ lastTimestamp = whole.lastTimestamp
          /\ tick.frame.nextItemIdx = whole.nextItemIdx
          /\ tick.transform = <<whole.coverFlowOffset>>

C20_Witness ==
  /\ LastStep = "transform"
  /\ Len(currentColumns) = Len(tick.begin.currentColumns)
  /\ Len(currentColumns) >= 2
  /\ currentColumns # tick.begin.currentColumns
  /\ tick.transform = <<coverFlowOffset>>

\* C21: right after the offset statement of a frame, lastTimestamp is the
\* frame's timestamp; in the first frame after a start() (a start after
\* stop() included) the offset is still 0, however long ago start() was
\* called; in every later frame the offset has decreased by exactly
\* ANIMATION_SPEED * (timestamp - previous frame's timestamp) / 1000.
C21_FrameDelta ==
  LastStep = "advance" =>
    /\ lastTimestamp = tick.timestamp
    /\ IF tick.afterStart
         THEN tick.prev.coverFlowOffset = 0 /\ coverFlowOffset = 0
         ELSE coverFlowOffset = tick.prev.coverFlowOffset
                - ANIMATION_SPEED * (tick.timestamp - tick.requestedAt)

C21_Witness ==
  /\ LastStep = "advance"
  /\ tick.afterStart
  /\ tick.restarted
  /\ tick.timestamp - tick.requestedAt > 0
  /\ now > StartTime + 5000
  /\ coverFlowOffset = 0

Retires ==
  /\ tick.pc = "retirement"
  /\ tick.variant = "optimized"
  /\ Len(currentColumns') < Len(currentColumns)

\* A synthesis statement of the optimized controller that adds a column
Synthesizes ==
  /\ tick.pc = "synthesis"
  /\ tick.variant = "optimized"
  /\ Len(currentColumns') > Len(currentColumns)

\* What removeColumnFromLeftOptimized does to a pool of any size up to the
\* limit, for the wall of this state
PoolingRule ==
  \A pool \in 0..POOL_LIMIT :
    LET removed == removeColumnFromLeftOptimized(
                     currentColumns, coverFlowChildren, coverFlowOffset,
                     COLUMN_WIDTH, pool)
    IN /\ removed.pool <= POOL_LIMIT
       /\ Len(removed.currentColumns) < Len(currentColumns) =>
            removed.pool = (IF pool < POOL_LIMIT THEN pool + 1 ELSE pool)
       /\ Len(removed.currentColumns) = Len(currentColumns) =>
            removed.pool = pool

Range(seq) == {seq[k] : k \in 1..Len(seq)}

NoDuplicates(seq) == Cardinality(Range(seq)) = Len(seq)

\* C29: no column object is in the pool and in the live list at once, no
\* column is twice in the live list, and while Running the container's
\* children are exactly the live columns' elements in the same order, so the
\* first child removed is the element of the column shifted off the list;
\* also after a resize rebuild that starts the engine again while columns
\* of the previous run are still pooled.
C29_ColumnOwnership ==
  /\ Len(tick.live) = Len(currentColumns)
  /\ Len(tick.dom) = Len(coverFlowChildren)
  /\ Range(tick.pooled) \cap Range(tick.live) = {}
  /\ NoDuplicates(tick.live)
  /\ NoDuplicates(tick.pooled)
  /\ isRunning =>
       /\ tick.dom = tick.live
       /\ coverFlowChildren = currentColumns
       /\ Range(tick.pooled) \cap Range(tick.dom) = {}

\* The engine was stopped by a resize and has just been started again on a
\* new wall while a column of the first run is pooled
C29_Witness ==
  /\ tick.variant = "optimized"
  /\ tick.restarted
  /\ isRunning
  /\ tick.steps = <<>>
  /\ Len(tick.pooled) >= 1
  /\ Len(tick.live) >= 2
  /\ \A id \in Range(tick.pooled) : id < Head(tick.live)

---------------------------------------------------------------------------
(* cleanup() alone: one pass over caches and pools of sizes at and around  *)
(* the thresholds                                                          *)

MaxExcess == 1          \* most entries a cache or pool holds above its limit

SizesAround(limit) == {0, 1, limit} \cup {limit + k : k \in 1..MaxExcess}

\* A memo map of n entries, an image map of n entries, a pool of n elements
Memoized(n) == {[key |-> <<"height", k>>, value |-> COLUMN_WIDTH] : k \in 1..n}
Cloned(n) == {[key |-> <<"cover", k>>] : k \in 1..n}
Pool(n) == [k \in 1..n |-> k]

CleanupInit ==
  /\ cachedCalculations \in {Memoized(n) : n \in SizesAround(CACHE_LIMIT)}
  /\ renderer \in
       {[imageCache |-> Cloned(n),
         elementPool |-> [columns |-> Pool(c), images |-> Pool(i),
                          yearTags |-> Pool(y)]] :
          n \in SizesAround(IMAGE_CACHE_LIMIT),
          c \in SizesAround(COLUMN_POOL_LIMIT),
          i \in SizesAround(IMAGE_POOL_LIMIT),
          y \in SizesAround(YEAR_TAG_POOL_LIMIT)}
  /\ books = <<>>
  /\ images = <<>>
  /\ innerWidth = 0
  /\ innerHeight = 0
  /\ now = 0
  /\ items = <<>>
  /\ coverFlowChildren = <<>>
  /\ currentColumns = <<>>
  /\ coverFlowOffset = 0
  /\ lastTimestamp = NullTime
  /\ isRunning = FALSE
  /\ animationFrameId = NullId
  /\ rafQueue = {}
  /\ placed = <<>>
  /\ lastCall = "init"
  /\ wall = NoWall
  /\ packed = NoPack
  /\ loader = NoLoad
  /\ exchange = NoExchange
  /\ tick = NoTick
  /\ service = NewService
  /\ app = NewApp

\* coverFlowRenderer.cleanup()
Cleanup ==
  /\ cachedCalculations' = cleanup(cachedCalculations)
  /\ renderer' = cleanupRenderer(renderer)
  /\ lastCall' = "cleanup"
  /\ UNCHANGED <<books, images, items, innerWidth, innerHeight,
                 coverFlowChildren, currentColumns, coverFlowOffset,
                 lastTimestamp, isRunning, animationFrameId, rafQueue, now,
                 placed, wall, packed, loader, exchange, tick, service, app>>

CleanupNext == Cleanup

CleanupSpec == CleanupInit /\ [][CleanupNext]_vars

\* The five sizes cleanup() looks at
Sizes ==
  [cachedCalculations |-> Cardinality(cachedCalculations),
   imageCache |-> Cardinality(renderer.imageCache),
   columns |-> Len(renderer.elementPool.columns),
   images |-> Len(renderer.elementPool.images),
   yearTags |-> Len(renderer.elementPool.yearTags)]

WithinBounds ==
  /\ Sizes.cachedCalculations <= 1000
  /\ Sizes.imageCache <= 500
  /\ Sizes.columns <= 50
  /\ Sizes.images <= 100
  /\ Sizes.yearTags <= 20

\* The first n elements of a pool, or all of them if it holds fewer
FirstOf(pool, n) == [k \in 1..(IF Len(pool) < n THEN Len(pool) ELSE n) |-> pool[k]]

\* C30: a cleanup() pass empties the calculation cache iff it holds more
\* than 1000 entries and the image cache iff it holds more than 500,
\* leaves a cache at or below its threshold as it is, and cuts the element
\* pools to their first 50 columns, 100 images and 20 year tags; right
\* after every pass all five sizes are within these bounds.
C30_CleanupEviction ==
  /\ [](lastCall = "cleanup" => WithinBounds)
  /\ [][lastCall' = "cleanup" =>
         /\ cachedCalculations' =
              (IF Cardinality(cachedCalculations) > 1000
                 THEN {} ELSE cachedCalculations)
         /\ renderer'.imageCache =
              (IF Cardinality(renderer.imageCache) > 500
                 THEN {} ELSE renderer.imageCache)
         /\ renderer'.elementPool.columns =
              FirstOf(renderer.elementPool.columns, 50)
         /\ renderer'.elementPool.images =
              FirstOf(renderer.elementPool.images, 100)
         /\ renderer'.elementPool.yearTags =
              FirstOf(renderer.elementPool.yearTags, 20)]_vars

\* A pass that emptied the image cache, kept a calculation cache of exactly
\* 1000 entries and cut a pool of 51 columns, with 100 images untouched
C30_Witness ==
  /\ lastCall = "cleanup"
  /\ Sizes = [cachedCalculations |-> 1000, imageCache |-> 0, columns |-> 50,
              images |-> 100, yearTags |-> 1]
  /\ renderer.elementPool.columns = Pool(50)

---------------------------------------------------------------------------
(* Properties of the long run *)

\* Columns retired since the wall was built
Retired == Len(placed) - Len(currentColumns)

BetweenFrames == tick.pc = "idle"

RightEdge == Milli(getWallWidth(currentColumns, COLUMN_WIDTH)) + coverFlowOffset

AfterTick == BetweenFrames /\ lastCall = "tick"

MAX_PAGES == 20

\* Pages whose answer is drawn freely; a later page answers with one item
MaxVariedPages == 2
\* Largest number of items in a freely drawn page
MaxPageItems == 2

\* The k-th item of a page
PageItem(page, k) == page * 10 + k

\* pageData.items of a page holding n items
PageItems(page, n) == [k \in 1..n |-> PageItem(page, k)]

\* The bodies the API can answer a page with: { items, title, hasMore };
\* malformed is a body whose items cannot be spread
PageData(page) ==
  IF page <= MaxVariedPages
    THEN {[items |-> PageItems(page, n), title |-> t, hasMore |-> h,
           malformed |-> m] :
            n \in 0..MaxPageItems, t \in {"", "T"}, h \in BOOLEAN,
            m \in {FALSE}}
         \cup {[items |-> <<>>, title |-> "T", hasMore |-> TRUE,
                malformed |-> TRUE]}
    ELSE {[items |-> PageItems(page, 1), title |-> "T", hasMore |-> h,
           malformed |-> FALSE] : h \in BOOLEAN}

\* One call of the progress callback
ProgressEvent(type, count, page, title) ==
  [type |-> type, count |-> count, page |-> page, title |-> title]

\* this.onProgress?.(...)
emit(sv, type, count, page, title) ==
  IF sv.registered
    THEN [sv EXCEPT !.events = Append(@, ProgressEvent(type, count, page, title))]
    ELSE sv

\* The variant of the failure path that keeps the pages fetched so far
rejectedKeepingPages(sv, error) ==
  [sv EXCEPT !.pc = "idle", !.outcome = "rejected", !.error = error,
             !.books = sv.allItems]

\* catch (error) { throw error } and the await in initialize() that lets it
\* through: the assignments of initialize() are not reached
rejected(sv, error) ==
  [sv EXCEPT !.pc = "idle", !.outcome = "rejected", !.error = error]

\* The lines after the loop, and initialize() storing what was returned
complete(sv) ==
  LET done == emit(sv, "fetch_complete", sv.totalBooks, 0, "")
      data == [null |-> FALSE, items |-> sv.allItems, total |-> sv.totalBooks,
               title |-> sv.channelTitle]
  IN [done EXCEPT !.pc = "idle", !.outcome = "resolved",
                  !.bookData = data, !.books = data.items]

\* The loop that lets one page more through
loopHeadOneMore(sv) ==
  IF sv.hasMore /\ sv.page <= MAX_PAGES + 1
    THEN [sv EXCEPT !.pc = "fetch", !.requests = Append(@, sv.page)]
    ELSE complete(sv)

\* The head of the loop: request the next page or leave the loop
loopHead(sv) ==
  IF sv.hasMore /\ sv.page <= MAX_PAGES
    THEN [sv EXCEPT !.pc = "fetch", !.requests = Append(@, sv.page)]
    ELSE complete(sv)

\* fetchBookData() up to its first await, called by initialize()
fetchBookData(sv) ==
  LET fresh == [sv EXCEPT !.outcome = "none", !.events = <<>>,
                          !.requests = <<>>, !.answers = <<>>,
                          !.allItems = <<>>, !.totalBooks = 0,
                          !.channelTitle = "", !.page = 1, !.hasMore = TRUE,
                          !.before = [bookData |-> sv.bookData,
                                      books |-> sv.books]]
  IN loopHead(emit(emit(fresh, "connect", 0, 0, ""), "fetch", 0, 0, ""))

\* await fetch(apiEndpoint) gave a response
responded(sv, ok) ==
  IF ~ok THEN rejected(sv, "http") ELSE [sv EXCEPT !.pc = "json"]

\* The loop body that announces the channel title after every page
parsedTitleEveryPage(sv, pageData) ==
  IF pageData.malformed THEN rejected(sv, "spread")
  ELSE
    LET pushed == [sv EXCEPT !.allItems = @ \o pageData.items,
                             !.totalBooks = Len(sv.allItems \o pageData.items),
                             !.channelTitle = pageData.title,
                             !.answers = Append(@, pageData)]
        titled == IF pushed.channelTitle # ""
                    THEN emit(pushed, "channel_title", 0, 0, pushed.channelTitle)
                    ELSE pushed
        shown == emit(titled, "fetch_progress", titled.totalBooks, titled.page, "")
        next == [shown EXCEPT !.hasMore = pageData.hasMore, !.page = @ + 1]
    IN IF next.hasMore THEN [next EXCEPT !.pc = "delay"] ELSE loopHead(next)

\* await response.json() gave pageData: the rest of the loop body
parsed(sv, pageData) ==
  IF pageData.malformed THEN rejected(sv, "spread")
  ELSE
    LET pushed == [sv EXCEPT !.allItems = @ \o pageData.items,
                             !.totalBooks = Len(sv.allItems \o pageData.items),
                             !.channelTitle = pageData.title,
                             !.answers = Append(@, pageData)]
        titled == IF pushed.page = 1 /\ pushed.channelTitle # ""
                    THEN emit(pushed, "channel_title", 0, 0, pushed.channelTitle)
                    ELSE pushed
        shown == emit(titled, "fetch_progress", titled.totalBooks, titled.page, "")
        next == [shown EXCEPT !.hasMore = pageData.hasMore, !.page = @ + 1]
    IN IF next.hasMore THEN [next EXCEPT !.pc = "delay"] ELSE loopHead(next)

FetchInit ==
  /\ loader = NoLoad
  /\ exchange = NoExchange
  /\ tick = NoTick
  /\ NoShelf

\* setProgressCallback(callback)
SetProgressCallback ==
  /\ service.pc = "idle"
  /\ service.outcome = "none"
  /\ ~service.registered
  /\ service' = [service EXCEPT !.registered = TRUE]
  /\ UNCHANGED <<core, loader, exchange, tick, renderer, app>>

\* initialize(), called once
Initialize ==
  /\ service.pc = "idle"
  /\ service.outcome = "none"
  /\ service' = fetchBookData(service)
  /\ UNCHANGED <<core, loader, exchange, tick, renderer, app>>

\* The page request settles with a response
Responded(ok) ==
  /\ service.pc = "fetch"
  /\ service' = responded(service, ok)
  /\ UNCHANGED <<core, loader, exchange, tick, renderer, app>>

\* The page request rejects
FetchRejects ==
  /\ service.pc = "fetch"
  /\ service' = rejected(service, "network")
  /\ UNCHANGED <<core, loader, exchange, tick, renderer, app>>

\* The body of the response is parsed
Parsed ==
  /\ service.pc = "json"
  /\ \E pageData \in PageData(service.page) :
       service' = parsed(service, pageData)
  /\ UNCHANGED <<core, loader, exchange, tick, renderer, app>>

\* The body of the response cannot be parsed
JsonRejects ==
  /\ service.pc = "json"
  /\ service' = rejected(service, "parse")
  /\ UNCHANGED <<core, loader, exchange, tick, renderer, app>>

\* The 100 ms timer between two pages fires
DelayElapsed ==
  /\ service.pc = "delay"
  /\ service' = loopHead(service)
  /\ UNCHANGED <<core, loader, exchange, tick, renderer, app>>

\* Every request settles, one way or another
Settles ==
  \/ \E ok \in BOOLEAN : Responded(ok)
  \/ FetchRejects
  \/ Parsed
  \/ JsonRejects

FetchNext ==
  \/ SetProgressCallback
  \/ Initialize
  \/ \E ok \in BOOLEAN : Responded(ok)
  \/ FetchRejects
  \/ Parsed
  \/ JsonRejects
  \/ DelayElapsed

FetchSpec ==
  FetchInit /\ [][FetchNext]_vars /\ WF_vars(Settles) /\ WF_vars(DelayElapsed)

\* The items of the answered pages, in page order
RECURSIVE Concatenated(_)
Concatenated(pages) ==
  IF pages = <<>> THEN <<>>
  ELSE Head(pages).items \o Concatenated(Tail(pages))

\* The call waits for a page request to settle
Requesting == service.pc \in {"fetch", "json"}

\* The pages are requested in the order 1, 2, 3, ..., at most MAX_PAGES
RequestedInOrder ==
  /\ \A i \in 1..Len(service.requests) : service.requests[i] = i
  /\ Len(service.requests) <= MAX_PAGES

\* A page is requested only when every earlier request has been answered
OneAtATime ==
  /\ Len(service.requests) - Len(service.answers) \in {0, 1}
  /\ Requesting => Len(service.requests) = Len(service.answers) + 1
  /\ service.pc = "delay" => Len(service.requests) = Len(service.answers)
  /\ service.outcome = "resolved"
       => Len(service.requests) = Len(service.answers)

\* No page is requested after one whose hasMore is falsy
StopsAtLastPage ==
  \A i \in 1..Len(service.answers) :
    ~service.answers[i].hasMore => Len(service.requests) = i

\* What a call that resolves returns
ReturnsAllPages ==
  service.outcome = "resolved"
    => /\ service.bookData.items = Concatenated(service.answers)
       /\ service.bookData.total = Len(service.bookData.items)

\* C34: fetchBookData requests the pages one at a time in the order 1, 2,
\* 3, ..., requests nothing after the first page whose hasMore is falsy,
\* requests at most 20 pages whatever the answers are, ends whenever every
\* request settles, and returns the concatenation of the pages' items in
\* page order with total equal to their count.
C34_PaginationBound ==
  /\ [](RequestedInOrder /\ OneAtATime /\ StopsAtLastPage /\ ReturnsAllPages)
  /\ (service.pc # "idle") ~> (service.pc = "idle")

\* A call that resolved after 20 pages although the last one announced more
C34_Witness ==
  /\ service.outcome = "resolved"
  /\ Len(service.requests) = MAX_PAGES
  /\ service.answers[MAX_PAGES].hasMore
  /\ Len(service.bookData.items) > MAX_PAGES

\* The positions of the events of one type, in the order of emission
Positions(type) ==
  {i \in 1..Len(service.events) : service.events[i].type = type}

\* The number of items of the first k answered pages
Cumulative(k) == Len(Concatenated(SubSeq(service.answers, 1, k)))

\* The run has begun and its progress callback is registered
Observed == service.registered /\ Len(service.requests) > 0

\* connect, then fetch, then the events of the pages
OpensInOrder ==
  /\ Len(service.events) >= 2
  /\ service.events[1].type = "connect"
  /\ service.events[2].type = "fetch"
  /\ \A i \in 3..Len(service.events) :
       service.events[i].type \in
         {"channel_title", "fetch_progress", "fetch_complete"}

\* One fetch_progress per answered page, in page order, with the
\* cumulative count
ProgressPerPage ==
  /\ Cardinality(Positions("fetch_progress")) = Len(service.answers)
  /\ \A i \in Positions("fetch_progress") :
       LET k == Cardinality({j \in Positions("fetch_progress") : j <= i})
       IN /\ service.events[i].page = k
          /\ service.events[i].count = Cumulative(k)
  /\ \A i, j \in Positions("fetch_progress") :
       i <= j => service.events[i].count <= service.events[j].count

\* channel_title at most once, between the fetch event and page 1's progress
TitleAfterFirstPage ==
  /\ Cardinality(Positions("channel_title")) <= 1
  /\ \A i \in Positions("channel_title") :
       /\ i = 3
       /\ Len(service.events) >= 4
       /\ service.events[4].type = "fetch_progress"
       /\ service.events[4].page = 1
       /\ service.events[i].title = service.answers[1].title

\* fetch_complete once, last, with the total, and only when every
\* requested page was answered
CompleteClosesRun ==
  /\ Cardinality(Positions("fetch_complete")) <= 1
  /\ \A i \in Positions("fetch_complete") :
       /\ i = Len(service.events)
       /\ service.events[i].count = Cumulative(Len(service.answers))
       /\ Len(service.answers) = Len(service.requests)
       /\ service.outcome = "resolved"
  /\ service.outcome = "resolved" => Positions("fetch_complete") # {}

\* C35: the progress events of one fetchBookData run are connect, fetch,
\* then one fetch_progress per fetched page in page order carrying the
\* cumulative item count, with channel_title at most once and only right
\* after page 1 is received, and last exactly one fetch_complete with the
\* total, emitted only if every requested page succeeded.
C35_ProgressEventOrder ==
  Observed => /\ OpensInOrder
              /\ ProgressPerPage
              /\ TitleAfterFirstPage
              /\ CompleteClosesRun

\* A run of more than one page that announced its title and completed
C35_Witness ==
  /\ Observed
  /\ Positions("channel_title") # {}
  /\ Positions("fetch_complete") # {}
  /\ Len(service.answers) > 2
  /\ service.answers[2].title # ""

\* What the service stores is what it stored when initialize() was called
StoredAsBefore ==
  /\ service.bookData = service.before.bookData
  /\ service.books = service.before.books

\* C36: when a page request answers with a non-OK status or rejects, no
\* further page is requested and initialize() rejects, the stored books and
\* bookData are what they were before the call, and no fetch_complete is
\* emitted.
C36_FailureAtomicity ==
  /\ service.error # "none" <=> service.outcome = "rejected"
  /\ service.outcome = "rejected"
       => /\ service.pc = "idle"
          /\ Len(service.requests) = Len(service.answers) + 1
          /\ StoredAsBefore
          /\ Positions("fetch_complete") = {}
  /\ service.pc # "idle" => StoredAsBefore

\* A call rejected by a non-OK answer after pages with items had arrived
C36_Witness ==
  /\ service.outcome = "rejected"
  /\ service.error = "http"
  /\ service.registered
  /\ Len(service.answers) >= 2
  /\ service.allItems # <<>>

(***************************************************************************)
(* BookCoverFlowApp: the debounced resize handler and buildWall            *)
(***************************************************************************)

\* this.debounce(this.handleResize.bind(this), 250)
RESIZE_WAIT == 250

\* The host clock advances by half the wait, or up to the next timer
TimeStep == RESIZE_WAIT \div 2
\* The host clock advances this many times
MaxAppSteps == 4
MaxAppTime == StartTime + MaxAppSteps * TimeStep

\* The shelves the app is run on: empty, one book, two books
AppShelves ==
  {<<>>, <<Book(DateIn(2020), TallImage)>>,
   <<Book(NoReadAt, ShortImage), Book(DateIn(2021), TallImage)>>}

\* Every book of the shelf has an image_url
WithUrls(bs) == [i \in 1..Len(bs) |-> TRUE]

\* Which covers the resolved preloadImages delivered
Delivered(resolved) == [i \in 1..Len(resolved) |-> resolved[i] = i - 1]

\* Variant: the debounced function leaves the earlier timer pending
executedFunctionNoClear(a, t) ==
  [a EXCEPT !.timers = @ \cup {t + RESIZE_WAIT},
            !.timeout = t + RESIZE_WAIT]

\* The debounced function, called at time t: clearTimeout(timeout);
\* timeout = setTimeout(later, wait)
executedFunction(a, t) ==
  [a EXCEPT !.timers = (@ \ {a.timeout}) \cup {t + RESIZE_WAIT},
            !.timeout = t + RESIZE_WAIT]

\* Variant: handleResize rebuilds whether or not the animation runs
rebuildsNoCheck(running) == TRUE

\* handleResize's test: this.animationController?.isAnimationRunning()
rebuilds(running) == running

\* buildWall() up to `await this.imageLoader.preloadImages(books)`, for a
\* shelf that is not empty: stop(), setProgressCallback, preloadImages
BuildWallAwaits ==
  /\ Len(books) > 0
  /\ \E stopped \in {stop(animationFrameId, rafQueue)} :
       /\ animationFrameId' = stopped.animationFrameId
       /\ rafQueue' = stopped.rafQueue
       /\ isRunning' = stopped.isRunning
  /\ loader' = preloadImages(WithUrls(books), TRUE)
  /\ lastCall' = "stop"

\* The window fires a resize event: the debounced handler is called
ResizeEvent(width) ==
  /\ width # innerWidth
  /\ app.lastResize # now
  /\ innerWidth' = width
  /\ app' = [executedFunction(app, now) EXCEPT
               !.lastResize = now, !.runs = 0,
               !.burst = IF app.lastResize # NullTime
                            /\ now - app.lastResize < RESIZE_WAIT
                           THEN @ + 1 ELSE 1]
  /\ UNCHANGED <<books, images, cachedCalculations, items, innerHeight,
                 coverFlowChildren, currentColumns, coverFlowOffset,
                 lastTimestamp, isRunning, animationFrameId, rafQueue, now,
                 placed, lastCall, wall, packed, loader, exchange, tick,
                 renderer, service>>

\* A resize timer fires: later() runs handleResize, which when the
\* animation runs calls cleanup() and buildWall()
ResizeTimer(t) ==
  /\ t \in app.timers
  /\ now >= t
  /\ IF rebuilds(isRunning) /\ Len(books) > 0
       THEN /\ BuildWallAwaits
            /\ cachedCalculations' = cleanup(cachedCalculations)
            /\ renderer' = cleanupRenderer(renderer)
            /\ app' = [app EXCEPT !.timers = @ \ {t}, !.runs = @ + 1,
                                  !.building = @ + 1, !.owed = isRunning,
                                  !.fresh = FALSE]
       ELSE /\ cachedCalculations' =
                 IF rebuilds(isRunning) THEN cleanup(cachedCalculations)
                                        ELSE cachedCalculations
            /\ renderer' =
                 IF rebuilds(isRunning) THEN cleanupRenderer(renderer)
                                        ELSE renderer
            /\ app' = [app EXCEPT !.timers = @ \ {t}, !.runs = @ + 1,
                                  !.ignored = @ \/ app.building > 0]
            /\ UNCHANGED <<animationFrameId, rafQueue, isRunning, loader,
                           lastCall>>
  /\ UNCHANGED <<books, images, items, innerWidth, innerHeight,
                 coverFlowChildren, currentColumns, coverFlowOffset,
                 lastTimestamp, now, placed, wall, packed, exchange, tick,
                 service>>

\* initialize(), once the book data is there: `await this.buildWall()`
FirstBuildWall ==
  /\ app.phase = "created"
  /\ IF Len(books) > 0
       THEN /\ BuildWallAwaits
            /\ app' = [app EXCEPT !.phase = "initialized", !.building = @ + 1]
       ELSE /\ app' = [app EXCEPT !.phase = "initialized"]
            /\ UNCHANGED <<animationFrameId, rafQueue, isRunning, loader,
                           lastCall>>
  /\ UNCHANGED <<books, images, cachedCalculations, items, innerWidth,
                 innerHeight, coverFlowChildren, currentColumns,
                 coverFlowOffset, lastTimestamp, now, placed, wall, packed,
                 exchange, tick, renderer, service>>

\* An image of the preload under way loads or fails; when it was the last
\* one the promise resolves and buildWall goes on at once: getViewportSize,
\* renderWall, start
ImageSettles(idx, ok) ==
  /\ app.building > 0
  /\ idx \in loader.pending
  /\ \E settled \in {IF ok THEN onload(loader, idx) ELSE onerror(loader, idx)} :
       /\ loader' = IF settled.resolves # <<>> THEN NoLoad ELSE settled
       /\ IF settled.resolves # <<>>
            THEN /\ WallBuilt(Delivered(settled.resolves[1]))
                 /\ app' = [app EXCEPT !.building = @ - 1, !.owed = FALSE,
                                       !.ignored = FALSE, !.fresh = TRUE,
                                       !.rebuilt = app.owed,
                                       !.width = innerWidth]
            ELSE /\ app' = app
                 /\ UNCHANGED core
  /\ UNCHANGED <<exchange, tick, renderer, service>>

\* The host runs the pending frame callback, once per instant of its clock
Animate(f) ==
  /\ f \in rafQueue
  /\ app.lastFrame # now
  /\ lastCall' = "tick"
  /\ app' = [app EXCEPT !.lastFrame = now, !.fresh = FALSE]
  /\ IF ~isRunning
       THEN /\ rafQueue' = rafQueue \ {f}
            /\ UNCHANGED <<coverFlowChildren, currentColumns, coverFlowOffset,
                           lastTimestamp, animationFrameId, placed>>
       ELSE \E ran \in {animateCoverFlow(f, now, currentColumns,
                                            coverFlowChildren, coverFlowOffset,
                                            lastTimestamp, innerWidth)},
               id \in {requestId(rafQueue \ {f})} :
               /\ lastTimestamp' = ran.lastTimestamp
               /\ currentColumns' = ran.currentColumns
               /\ coverFlowChildren' = ran.coverFlowChildren
               /\ coverFlowOffset' = ran.coverFlowOffset
               /\ placed' = placed \o ran.synthesized
               /\ animationFrameId' = id
               /\ rafQueue' = (rafQueue \ {f}) \cup
                    {Frame(id, f.items, f.height, ran.nextItemIdx)}
  /\ UNCHANGED <<books, images, cachedCalculations, items, innerWidth,
                 innerHeight, isRunning, now, wall, packed, loader, exchange,
                 tick, renderer, service>>

\* The deadline of the earliest pending timer, if any is ahead of t
NextDeadline(t) ==
  IF \E d \in app.timers : d <= t
    THEN CHOOSE d \in app.timers : \A e \in app.timers : d <= e
    ELSE t

\* The host clock advances; a due timer fires before it advances further
Pass ==
  /\ \A d \in app.timers : d > now
  /\ now < MaxAppTime
  /\ now' = NextDeadline(now + TimeStep)
  /\ UNCHANGED <<books, images, cachedCalculations, items, innerWidth,
                 innerHeight, coverFlowChildren, currentColumns,
                 coverFlowOffset, lastTimestamp, isRunning, animationFrameId,
                 rafQueue, placed, lastCall, wall, packed, others>>

AppInit ==
  /\ books \in AppShelves
  /\ images = Preloaded(books, NoneLoaded(books))
  /\ innerWidth \in Widths
  /\ innerHeight \in {h \in Heights : \A g \in Heights : g <= h}
  /\ now = StartTime
  /\ Constructed

AppNext ==
  \/ FirstBuildWall
  \/ \E width \in Widths : ResizeEvent(width)
  \/ \E t \in app.timers : ResizeTimer(t)
  \/ \E idx \in 0..(MaxBooks - 1), ok \in BOOLEAN : ImageSettles(idx, ok)
  \/ \E f \in rafQueue : Animate(f)
  \/ Pass

AppSpec == AppInit /\ [][AppNext]_vars

\* A step in which the resize handler body runs
HandlerRuns == app.runs' = app.runs + 1

\* A step in which a buildWall execution begins to await its images
StartsBuild == app.building' > app.building

\* C37: at most one buildWall execution is under way at a time; a run of
\* the resize handler starts a rebuild only when the animation is Running;
\* while a build awaits its images the animation is stopped, no frame is
\* pending and no step changes the wall; a handler run during a build or
\* before the first wall starts nothing.
C37_SingleRebuildInFlight ==
  /\ [](/\ app.building <= 1
        /\ app.building > 0 => ~isRunning /\ rafQueue = {})
  /\ [][/\ HandlerRuns => (StartsBuild <=> isRunning)
        /\ HandlerRuns /\ (app.building > 0 \/ app.phase = "created")
             => ~StartsBuild
        /\ app.building > 0 /\ app.building' > 0
             => UNCHANGED <<coverFlowChildren, currentColumns,
                            coverFlowOffset>>]_vars

\* A rebuild begun by the resize handler is awaiting its images, and the
\* handler has run again meanwhile
C37_Witness ==
  /\ app.building = 1
  /\ app.owed
  /\ app.ignored
  /\ loader.pending # {}

\* RESIZE_WAIT ms have passed since the latest resize event
Quiet == app.lastResize # NullTime /\ now - app.lastResize >= RESIZE_WAIT

\* C38: the resize handler body runs only when 250 ms have passed without
\* a further resize event, and once per such quiet period: not at all
\* while the latest event is less than 250 ms old, so a burst of events
\* each less than 250 ms after the one before causes one run, after the
\* last event of the burst.
C38_ResizeDebounce ==
  /\ [](/\ app.runs <= 1
        /\ Cardinality(app.timers) <= 1
        /\ app.lastResize = NullTime => app.runs = 0 /\ app.timers = {}
        /\ app.lastResize # NullTime /\ now - app.lastResize < RESIZE_WAIT
             => app.runs = 0 /\ app.timers = {app.lastResize + RESIZE_WAIT}
        /\ app.lastResize # NullTime /\ now - app.lastResize > RESIZE_WAIT
             => app.runs = 1 /\ app.timers = {})
  /\ [][HandlerRuns => Quiet]_vars

\* The handler has run once after a burst of three events
C38_Witness ==
  /\ app.burst >= 3
  /\ app.runs = 1
  /\ now = app.lastResize + RESIZE_WAIT

\* The animation has just been started on a wall built by renderWall for
\* the viewport width read after the await: only the new columns are in
\* the container, ceil(width / COLUMN_WIDTH) of them, the offset is 0
RunsOnNewWall ==
  /\ app.fresh
  /\ isRunning
  /\ Cardinality(rafQueue) = 1
  /\ coverFlowChildren = wall.columns
  /\ currentColumns = wall.columns
  /\ Len(wall.columns) * COLUMN_WIDTH >= app.width
  /\ (Len(wall.columns) - 1) * COLUMN_WIDTH < app.width
  /\ coverFlowOffset = 0

\* The cursor of the pending frame is the resume cursor renderWall returned
CursorResumes == \A f \in rafQueue : f.nextItemIdx = wall.nextItemIdx

\* A buildWall execution is waiting for an image to load or fail
Awaiting == app.building > 0 /\ loader.pending # {}

\* No image load stays unsettled for ever
EveryLoadSettles == []<>(~Awaiting)

\* C39 as stated: the rebuild that a run of the resize handler starts
\* while the animation is Running on a shelf that is not empty ends, once
\* its images have settled, with the animation Running again on a wall
\* replaced wholesale, its cursor the new wall's resume cursor.
C39_RebuildLivenessAsStated ==
  app.fresh /\ app.rebuilt => RunsOnNewWall /\ CursorResumes

\* Such a rebuild always ends when its images settle, and its cursor is the
\* resume cursor whenever the new wall has items
RebuildCompletes ==
  /\ [](app.fresh /\ app.rebuilt
          => RunsOnNewWall /\ (wall.items # <<>> => CursorResumes))
  /\ EveryLoadSettles => (app.owed ~> (app.rebuilt /\ RunsOnNewWall))

===========================================================================
